---- MODULE Spec2Model ----
(***************************************************************************)
(* Verification model of Task-Management-API: the circuit breaker, the     *)
(* warm-up priority queue, the two-tier cache, the cached task service,   *)
(* the unified cache manager with its warmers, and the background worker. *)
(* Each component has its own specification (SpecBreaker, SpecQueue,      *)
(* SpecCache, SpecService, SpecPattern, SpecRace, SpecManager,            *)
(* SpecWarmer, SpecLocks, SpecWorker); the variables of the other         *)
(* components are left unchanged by it.                                   *)
(***************************************************************************)
EXTENDS Integers, Sequences, FiniteSets, TLC

VARIABLES
    cb,          \* the CircuitBreaker struct (state, counters, configuration)
    now,         \* the wall clock (time.Now), in abstract time units
    pc,          \* per caller: position inside CircuitBreaker.Execute
    result,      \* per caller: what its last Execute call returned
    lastOp,      \* history: the last breaker step and the state it started in
    consecFail,  \* history: failing calls recorded since the last success
    everOpen,    \* history: the breaker has been Open at some point
    trials,      \* history: calls admitted in the current recovery episode
    items,       \* PriorityQueue.items, the heap array of *JobQueue
    popRet,      \* what the last PriorityQueue.Pop returned (job, ok)
    popped,      \* history: jobs popped since the last Push or Clear
    pushed,      \* history: the jobs that were queued after the last Push
    inspected,   \* what the last queue call returned, if it was an inspection
    l1,          \* MultiLevelCache.l1, the in-process MemoryCache
    l2Configured,\* MultiLevelCache.l2 != nil
    redis,       \* the keys held by the Redis server behind RedisCache
    redisUp,     \* the Redis server answers
    cacheLog,    \* history: the last cache call with what it returned
    getPc,       \* per reader: its Get in flight, or what its last Get returned
    delPc,       \* the key of the Delete in flight between the two tiers
    deletedKeys, \* history: keys deleted without error and not set since
    lastSet,     \* history: per key, the value of the last Set if no Delete followed
    ucm,         \* the UnifiedCacheManager struct and the config it was built from
    cw,          \* the legacy CacheWarmer with its worker pool and scheduler
    iw,          \* the IntegratedCacheWarmer
    lastCall,    \* history: the last manager call with what it returned
    warmLog,     \* history: keys warmed twice, a skipped tick, a stuck or the last pass
    wk,          \* the background Worker: its queues, the Redis lists, history
    th           \* per thread: the CacheWarmer method it is in, and its locks

breakerVars == <<cb, pc, result, lastOp, consecFail, everOpen, trials>>
queueVars == <<items, popRet, popped, pushed, inspected>>

cacheVars == <<l1, l2Configured, redis, redisUp, cacheLog>>

raceVars == <<getPc, delPc, deletedKeys, lastSet>>

managerVars == <<ucm, cw, iw, lastCall, warmLog>>

workerVars == <<wk>>

threadVars == <<th>>

notBreaker == <<queueVars, cacheVars, raceVars, managerVars, workerVars, threadVars>>
notQueue == <<breakerVars, now, cacheVars, raceVars, managerVars, workerVars, threadVars>>
notCache == <<breakerVars, queueVars, raceVars, managerVars, workerVars, threadVars>>
notRace == <<breakerVars, queueVars, managerVars, workerVars, threadVars>>

vars == <<cb, now, pc, result, lastOp, consecFail, everOpen, trials,
          items, popRet, popped, pushed, inspected,
          l1, l2Configured, redis, redisUp, cacheLog,
          getPc, delPc, deletedKeys,
          ucm, cw, iw, lastCall, warmLog, wk, th, lastSet>>

(***************************************************************************)
(* Bounds of the model.                                                    *)
(***************************************************************************)
NumCallers == 2
MaxMaxFailures == 2
MaxHalfOpenMaxCalls == 2
MaxTimeout == 2
MaxTime == 4
MaxQueueLen == 4
MaxPriority == 2
MaxTTL == 2
MaxCacheTime == 2

Callers == 1..NumCallers

(***************************************************************************)
(* Circuit breaker                                                         *)
(***************************************************************************)
CircuitBreakerClosed == "Closed"
CircuitBreakerOpen == "Open"
CircuitBreakerHalfOpen == "HalfOpen"

ErrCircuitBreakerOpen == "circuit breaker is open"

\* The zero time.Time of a new breaker: far enough in the past that
\* time.Since(lastFailureTime) exceeds every timeout.
ZeroTime == 0 - (MaxTimeout + 1)

NewCircuitBreaker(maxFailures, timeout, halfOpenMaxCalls) ==
    [state            |-> CircuitBreakerClosed,
     failureCount     |-> 0,
     successCount     |-> 0,
     lastFailureTime  |-> ZeroTime,
     maxFailures      |-> maxFailures,
     timeout          |-> timeout,
     halfOpenMaxCalls |-> halfOpenMaxCalls]

\* mutant: the timeout is compared with > instead of >=
shouldAttemptReset_strict(b, t) == t - b.lastFailureTime > b.timeout

\* mutant: the reset is attempted one time unit early
shouldAttemptReset_early(b, t) == t - b.lastFailureTime >= b.timeout - 1

shouldAttemptReset(b, t) == t - b.lastFailureTime >= b.timeout

allow(b, t) ==
    CASE b.state = CircuitBreakerClosed   -> TRUE
      [] b.state = CircuitBreakerOpen     -> shouldAttemptReset(b, t)
      [] b.state = CircuitBreakerHalfOpen -> b.successCount < b.halfOpenMaxCalls
      [] OTHER                            -> FALSE

\* mutant: the threshold is compared with > instead of >=
recordFailure_late(b, t) ==
    LET b1 == [b EXCEPT !.failureCount = @ + 1, !.lastFailureTime = t]
    IN  CASE b1.state = CircuitBreakerClosed ->
               IF b1.failureCount > b1.maxFailures
               THEN [b1 EXCEPT !.state = CircuitBreakerOpen]
               ELSE b1
          [] b1.state = CircuitBreakerHalfOpen ->
               [b1 EXCEPT !.state = CircuitBreakerOpen, !.successCount = 0]
          [] OTHER -> b1

\* mutant: a failure in HalfOpen reopens but keeps successCount
recordFailure_keep(b, t) ==
    LET b1 == [b EXCEPT !.failureCount = @ + 1, !.lastFailureTime = t]
    IN  CASE b1.state = CircuitBreakerClosed ->
               IF b1.failureCount >= b1.maxFailures
               THEN [b1 EXCEPT !.state = CircuitBreakerOpen]
               ELSE b1
          [] b1.state = CircuitBreakerHalfOpen ->
               [b1 EXCEPT !.state = CircuitBreakerOpen]
          [] OTHER -> b1

recordFailure(b, t) ==
    LET b1 == [b EXCEPT !.failureCount = @ + 1, !.lastFailureTime = t]
    IN  CASE b1.state = CircuitBreakerClosed ->
               IF b1.failureCount >= b1.maxFailures
               THEN [b1 EXCEPT !.state = CircuitBreakerOpen]
               ELSE b1
          [] b1.state = CircuitBreakerHalfOpen ->
               [b1 EXCEPT !.state = CircuitBreakerOpen, !.successCount = 0]
          [] OTHER -> b1

recordSuccess(b, t) ==
    CASE b.state = CircuitBreakerClosed ->
           [b EXCEPT !.failureCount = 0]
      [] b.state = CircuitBreakerHalfOpen ->
           LET b1 == [b EXCEPT !.successCount = @ + 1]
           IN  IF b1.successCount >= b1.halfOpenMaxCalls
               THEN [b1 EXCEPT !.state = CircuitBreakerClosed,
                               !.failureCount = 0,
                               !.successCount = 0]
               ELSE b1
      [] b.state = CircuitBreakerOpen ->
           IF shouldAttemptReset(b, t)
           THEN [b EXCEPT !.state = CircuitBreakerHalfOpen, !.successCount = 1]
           ELSE b
      [] OTHER -> b

\* Execute, first half: the admission check.  A rejected call returns
\* ErrCircuitBreakerOpen at once; an admitted call goes on to run fn.
ExecuteAllow(p) ==
    /\ pc[p] = "idle"
    /\ IF allow(cb, now)
       THEN /\ pc' = [pc EXCEPT ![p] = "fn"]
            /\ result' = [result EXCEPT ![p] = "pending"]
            /\ lastOp' = [op |-> "admit", pre |-> cb.state]
            /\ trials' = IF cb.state = CircuitBreakerClosed THEN trials ELSE trials + 1
       ELSE /\ pc' = pc
            /\ result' = [result EXCEPT ![p] = ErrCircuitBreakerOpen]
            /\ lastOp' = [op |-> "reject", pre |-> cb.state]
            /\ trials' = trials
    /\ UNCHANGED <<cb, now, consecFail, everOpen>>
    /\ UNCHANGED notBreaker

\* Execute, second half: fn returned an error and the failure is recorded.
ExecuteFail(p) ==
    /\ pc[p] = "fn"
    /\ cb' = recordFailure(cb, now)
    /\ pc' = [pc EXCEPT ![p] = "idle"]
    /\ result' = [result EXCEPT ![p] = "err"]
    /\ lastOp' = [op |-> "fail", pre |-> cb.state]
    /\ consecFail' = consecFail + 1
    /\ everOpen' = (everOpen \/ cb'.state = CircuitBreakerOpen)
    /\ trials' = IF cb.state = CircuitBreakerClosed THEN trials ELSE 0
    /\ UNCHANGED now
    /\ UNCHANGED notBreaker

\* Execute, second half: fn returned nil and the success is recorded.
ExecuteSucceed(p) ==
    /\ pc[p] = "fn"
    /\ cb' = recordSuccess(cb, now)
    /\ pc' = [pc EXCEPT ![p] = "idle"]
    /\ result' = [result EXCEPT ![p] = "nil"]
    /\ lastOp' = [op |-> "success", pre |-> cb.state]
    /\ consecFail' = 0
    /\ everOpen' = everOpen
    /\ trials' = IF cb'.state = CircuitBreakerClosed THEN 0 ELSE trials
    /\ UNCHANGED now
    /\ UNCHANGED notBreaker

\* Time passes.
Tick ==
    /\ now < MaxTime
    /\ now' = now + 1
    /\ UNCHANGED <<cb, pc, result, lastOp, consecFail, everOpen, trials>>
    /\ UNCHANGED notBreaker


(***************************************************************************)
(* Priority queue of warm-up jobs (a container/heap max-heap).  Heap       *)
(* positions are 0-based as in the source; At(h, i) is h[i].               *)
(***************************************************************************)
JobKeys == {"k1", "k2"}

\* WarmupJob values (the key and the priority; data and ttl play no part
\* in the ordering).
WarmupJobs == [Key : JobKeys, Priority : 0..MaxPriority]

\* WarmupJob{}, the zero value Pop and Peek return for an empty queue.
ZeroJob == [Key |-> "", Priority |-> 0]

At(h, i) == h[i + 1]

\* mutant: the comparison of a min-heap
Less_min(h, i, j) == At(h, i).Priority < At(h, j).Priority

Less(h, i, j) == At(h, i).Priority > At(h, j).Priority

Swap(h, i, j) ==
    [k \in DOMAIN h |->
        IF k = i + 1 THEN [At(h, j) EXCEPT !.Index = i]
        ELSE IF k = j + 1 THEN [At(h, i) EXCEPT !.Index = j]
        ELSE h[k]]

\* PriorityQueueHeap.Push: append the item at index n.
HeapPush(h, x) == Append(h, [x EXCEPT !.Index = Len(h)])

\* PriorityQueueHeap.Pop: detach the last item, whose Index becomes -1.
HeapPopItem(h) == [h[Len(h)] EXCEPT !.Index = 0 - 1]

HeapPopRest(h) == SubSeq(h, 1, Len(h) - 1)

\* container/heap.up: sift the item at j towards the root.  Go's (j-1)/2
\* truncates towards zero, so the parent of the root is the root itself.
RECURSIVE heap_up(_, _)
heap_up(h, j) ==
    LET i == IF j = 0 THEN 0 ELSE (j - 1) \div 2
    IN  IF i = j \/ ~Less(h, j, i)
        THEN h
        ELSE heap_up(Swap(h, i, j), i)

\* container/heap.down: sift the item at i down inside h[0..n).
RECURSIVE heap_down(_, _, _)
heap_down(h, i, n) ==
    LET j1 == 2 * i + 1
    IN  IF j1 >= n
        THEN h
        ELSE LET j2 == j1 + 1
                 j  == IF j2 < n /\ Less(h, j2, j1) THEN j2 ELSE j1
             IN  IF ~Less(h, j, i)
                 THEN h
                 ELSE heap_down(Swap(h, i, j), j, n)

\* container/heap.Init: heapify, i = n/2-1 down to 0.
RECURSIVE heap_InitFrom(_, _)
heap_InitFrom(h, i) ==
    IF i < 0 THEN h ELSE heap_InitFrom(heap_down(h, i, Len(h)), i - 1)

heap_Init(h) == heap_InitFrom(h, (Len(h) \div 2) - 1)

\* container/heap.Push: h.Push(x); up(h, h.Len()-1).
heap_Push(h, x) == heap_up(HeapPush(h, x), Len(h))

\* container/heap.Pop: n := h.Len()-1; h.Swap(0, n); down(h, 0, n); h.Pop().
heap_PopSifted(h) == heap_down(Swap(h, 0, Len(h) - 1), 0, Len(h) - 1)

NewPriorityQueue == heap_Init(<<>>)

Jobs(s) == [k \in DOMAIN s |-> s[k].Job]

\* The last call was not an inspection.
NoInspection == [op |-> "none"]

\* mutant: Push leaves JobQueue.Priority at its zero value
Push_noPriority(job) ==
    /\ Len(items) < MaxQueueLen
    /\ items' = heap_Push(items, [Job |-> job, Priority |-> 0, Index |-> 0])
    /\ popped' = <<>>
    /\ pushed' = Jobs(items')
    /\ inspected' = NoInspection
    /\ UNCHANGED popRet
    /\ UNCHANGED notQueue

\* PriorityQueue.Push(job)
Push(job) ==
    /\ Len(items) < MaxQueueLen
    /\ items' = heap_Push(items, [Job |-> job, Priority |-> job.Priority, Index |-> 0])
    /\ popped' = <<>>
    /\ pushed' = Jobs(items')
    /\ inspected' = NoInspection
    /\ UNCHANGED popRet
    /\ UNCHANGED notQueue

\* mutant: Pop returns the root of the heap and leaves it in the queue
Pop_noRemove ==
    /\ IF Len(items) = 0
       THEN /\ popRet' = [job |-> ZeroJob, ok |-> FALSE]
            /\ UNCHANGED <<items, popped>>
       ELSE /\ popRet' = [job |-> At(items, 0).Job, ok |-> TRUE]
            /\ popped' = Append(popped, At(items, 0).Job)
            /\ UNCHANGED items
    /\ inspected' = NoInspection
    /\ UNCHANGED pushed
    /\ UNCHANGED notQueue

\* PriorityQueue.Pop()
Pop ==
    /\ IF Len(items) = 0
       THEN /\ popRet' = [job |-> ZeroJob, ok |-> FALSE]
            /\ UNCHANGED <<items, popped>>
       ELSE LET h == heap_PopSifted(items)
            IN  /\ items' = HeapPopRest(h)
                /\ popRet' = [job |-> HeapPopItem(h).Job, ok |-> TRUE]
                /\ popped' = Append(popped, HeapPopItem(h).Job)
    /\ inspected' = NoInspection
    /\ UNCHANGED pushed
    /\ UNCHANGED notQueue

\* PriorityQueue.Clear()
Clear ==
    /\ items' = heap_Init(SubSeq(items, 1, 0))
    /\ popped' = <<>>
    /\ pushed' = <<>>
    /\ inspected' = NoInspection
    /\ UNCHANGED popRet
    /\ UNCHANGED notQueue

\* mutant: Peek returns the last element of the heap array
Peek_last == IF Len(items) = 0
             THEN [job |-> ZeroJob, ok |-> FALSE]
             ELSE [job |-> At(items, Len(items) - 1).Job, ok |-> TRUE]

\* PriorityQueue.Peek()
Peek == IF Len(items) = 0
        THEN [job |-> ZeroJob, ok |-> FALSE]
        ELSE [job |-> At(items, 0).Job, ok |-> TRUE]

\* PriorityQueue.GetJobs()
GetJobs == Jobs(items)

\* PriorityQueue.Len()
QueueLen == Len(items)

\* PriorityQueue.Empty()
Empty == QueueLen = 0

\* A call of Peek, Len, Empty or GetJobs under the read lock: what it
\* returned.
Inspect(op) ==
    /\ inspected' = [op |-> op,
                     ret |-> CASE op = "Peek" -> Peek
                               [] op = "Len" -> QueueLen
                               [] op = "Empty" -> Empty
                               [] op = "GetJobs" -> GetJobs]
    /\ UNCHANGED <<items, popRet, popped, pushed>>
    /\ UNCHANGED notQueue

(***************************************************************************)
(* Two-tier cache.  Time is counted in minutes.  Go values are modelled    *)
(* by their dynamic type (kind) and a payload; isPtr marks a pointer to    *)
(* such a value.  Values crossing the cache boundary are JSON-encodable.   *)
(***************************************************************************)
CacheKeys == {"a", "b"}

Payloads == {1, 2}

GoValue(kind, v) == [isPtr |-> FALSE, kind |-> kind, v |-> v]

\* The values callers hand to Set: ints.
SetValues == {GoValue("int", v) : v \in Payloads}

\* The static type of the variable whose address is passed to Get.
DestKinds == {"int", "string", "any"}

NoValue == [isPtr |-> FALSE, kind |-> "none", v |-> 0]

ErrCacheMiss == "cache miss"

\* json.Marshal: numbers and strings are different JSON tokens; a pointer
\* is encoded as the value it points to.
Marshal(x) ==
    [t   |-> IF x.kind \in {"int", "float64"} THEN "number" ELSE "string",
     lit |-> x.v]

\* json.Unmarshal into a variable of static type destKind: a number does
\* not decode into a string variable nor a string into an int variable; into
\* an interface{} variable a number decodes as float64.
Unmarshal(data, destKind) ==
    CASE destKind = "int" ->
           IF data.t = "number"
           THEN [err |-> "nil", value |-> GoValue("int", data.lit)]
           ELSE [err |-> "failed to unmarshal", value |-> NoValue]
      [] destKind = "string" ->
           IF data.t = "string"
           THEN [err |-> "nil", value |-> GoValue("string", data.lit)]
           ELSE [err |-> "failed to unmarshal", value |-> NoValue]
      [] OTHER ->
           IF data.t = "number"
           THEN [err |-> "nil", value |-> GoValue("float64", data.lit)]
           ELSE [err |-> "nil", value |-> GoValue("string", data.lit)]

\* copyValue / copyValueViaJSON: marshal src, unmarshal into dest.
copyValue(src, destKind) == Unmarshal(Marshal(src), destKind)

NoEntry == [present |-> FALSE, value |-> NoValue, expiresAt |-> 0]

\* MemoryCache.Set: the entry expires ttl after the write.
MemoryCache_Set(m, key, value, ttl, t) ==
    [m EXCEPT ![key] = [present |-> TRUE, value |-> value, expiresAt |-> t + ttl]]

\* MemoryCache.Get: found while the entry has not expired.
MemoryCache_Found(m, key, t) == m[key].present /\ t < m[key].expiresAt

MemoryCache_Delete(m, key) == [m EXCEPT ![key] = NoEntry]

\* The Redis server: SET with an expiration, GET of a live key.
RedisLive(r, key, t) == r[key].present /\ t < r[key].expiresAt

\* RedisCache.Set: marshal, then SET; a down server is an error.
RedisCache_Set(r, key, value, ttl, t) ==
    IF redisUp
    THEN [err |-> "nil",
          redis |-> [r EXCEPT ![key] = [present |-> TRUE, value |-> Marshal(value),
                                         expiresAt |-> t + ttl]]]
    ELSE [err |-> "failed to set cache", redis |-> r]

\* mutant: RedisCache.Get reports every failure of the server as a miss
RedisCache_Get_allMiss(r, key, destKind, t) ==
    IF ~redisUp THEN [err |-> ErrCacheMiss, value |-> NoValue]
    ELSE IF ~RedisLive(r, key, t) THEN [err |-> ErrCacheMiss, value |-> NoValue]
    ELSE Unmarshal(r[key].value, destKind)

\* RedisCache.Get: redis.Nil is ErrCacheMiss, other errors are wrapped,
\* the data is unmarshalled into dest.
RedisCache_Get(r, key, destKind, t) ==
    IF ~redisUp THEN [err |-> "failed to get from cache", value |-> NoValue]
    ELSE IF ~RedisLive(r, key, t) THEN [err |-> ErrCacheMiss, value |-> NoValue]
    ELSE Unmarshal(r[key].value, destKind)

NoData == [t |-> "none", lit |-> 0]

NoRedisEntry == [present |-> FALSE, value |-> NoData, expiresAt |-> 0]

BackfillTTL == 5

\* mutant: Set writes the remote tier only, when one is configured
MultiLevelCache_Set_remoteOnly(key, value, ttl) ==
    IF l2Configured
    THEN LET w == RedisCache_Set(redis, key, value, ttl, now)
         IN  [l1 |-> l1, redis |-> w.redis, err |-> w.err]
    ELSE [l1 |-> MemoryCache_Set(l1, key, value, ttl, now), redis |-> redis, err |-> "nil"]

\* mutant: Set writes the remote tier first and the local tier only when
\* the remote write succeeded
MultiLevelCache_Set_remoteFirst(key, value, ttl) ==
    IF l2Configured
    THEN LET w == RedisCache_Set(redis, key, value, ttl, now)
         IN  IF w.err = "nil"
             THEN [l1 |-> MemoryCache_Set(l1, key, value, ttl, now),
                   redis |-> w.redis, err |-> w.err]
             ELSE [l1 |-> l1, redis |-> redis, err |-> w.err]
    ELSE [l1 |-> MemoryCache_Set(l1, key, value, ttl, now), redis |-> redis, err |-> "nil"]

\* MultiLevelCache.Set: the tiers after the call and the error returned.
MultiLevelCache_Set(key, value, ttl) ==
    LET m == MemoryCache_Set(l1, key, value, ttl, now)
    IN  IF l2Configured
        THEN LET w == RedisCache_Set(redis, key, value, ttl, now)
             IN  [l1 |-> m, redis |-> w.redis, err |-> w.err]
        ELSE [l1 |-> m, redis |-> redis, err |-> "nil"]

\* mutant: the backfill keeps the local copy for twice the backfill TTL
MultiLevelCache_Get_longBackfill(key, destKind) ==
    IF MemoryCache_Found(l1, key, now)
    THEN LET c == copyValue(l1[key].value, destKind)
         IN  [l1 |-> l1, err |-> c.err, value |-> c.value]
    ELSE IF l2Configured
    THEN LET g == RedisCache_Get(redis, key, destKind, now)
         IN  IF g.err = "nil"
             THEN [l1 |-> MemoryCache_Set(l1, key, [g.value EXCEPT !.isPtr = TRUE],
                                          BackfillTTL + BackfillTTL, now),
                   err |-> g.err, value |-> g.value]
             ELSE [l1 |-> l1, err |-> g.err, value |-> g.value]
    ELSE [l1 |-> l1, err |-> ErrCacheMiss, value |-> NoValue]

\* MultiLevelCache.Get: the local tier after the call, the error returned
\* and the value left in dest.  A remote hit stores dest itself, a pointer,
\* in the local tier.
MultiLevelCache_Get(key, destKind) ==
    IF MemoryCache_Found(l1, key, now)
    THEN LET c == copyValue(l1[key].value, destKind)
         IN  [l1 |-> l1, err |-> c.err, value |-> c.value]
    ELSE IF l2Configured
    THEN LET g == RedisCache_Get(redis, key, destKind, now)
         IN  IF g.err = "nil"
             THEN [l1 |-> MemoryCache_Set(l1, key, [g.value EXCEPT !.isPtr = TRUE],
                                          BackfillTTL, now),
                   err |-> g.err, value |-> g.value]
             ELSE [l1 |-> l1, err |-> g.err, value |-> g.value]
    ELSE [l1 |-> l1, err |-> ErrCacheMiss, value |-> NoValue]

\* The record kept of a cache call.  For a Get, afterSet says that the call
\* before it was a successful Set of the same key whose ttl has not run out,
\* and written is the value of that Set.
Call(op, key, kind, value, deadline, err, afterSet, written) ==
    [op |-> op, key |-> key, kind |-> kind, value |-> value, deadline |-> deadline,
     err |-> err, afterSet |-> afterSet, written |-> written]

NoCall == Call("none", "", "none", NoValue, 0, "nil", FALSE, NoValue)

Set(key, value, ttl) ==
    LET r == MultiLevelCache_Set(key, value, ttl)
    IN  /\ l1' = r.l1
        /\ redis' = r.redis
        /\ cacheLog' = Call("Set", key, value.kind, value, now + ttl, r.err, FALSE, NoValue)
        /\ UNCHANGED <<l2Configured, redisUp, now>>
        /\ UNCHANGED notCache

Get(key, destKind) ==
    LET r == MultiLevelCache_Get(key, destKind)
        afterSet == /\ cacheLog.op = "Set"
                    /\ cacheLog.err = "nil"
                    /\ cacheLog.key = key
                    /\ now < cacheLog.deadline
    IN  /\ l1' = r.l1
        /\ cacheLog' = Call("Get", key, destKind, r.value, 0, r.err, afterSet,
                            IF afterSet THEN cacheLog.value ELSE NoValue)
        /\ UNCHANGED <<l2Configured, redis, redisUp, now>>
        /\ UNCHANGED notCache

\* MultiLevelCache.Delete
Delete(key) ==
    /\ l1' = MemoryCache_Delete(l1, key)
    /\ IF l2Configured /\ redisUp
       THEN redis' = [redis EXCEPT ![key] = NoRedisEntry]
       ELSE redis' = redis
    /\ cacheLog' = Call("Delete", key, "none", NoValue, 0,
                        IF l2Configured /\ ~redisUp THEN "failed to delete" ELSE "nil",
                        FALSE, NoValue)
    /\ UNCHANGED <<l2Configured, redisUp, now>>
    /\ UNCHANGED notCache

\* Time passes for the cache.
CacheTick ==
    /\ now < MaxCacheTime
    /\ now' = now + 1
    /\ UNCHANGED cacheVars
    /\ UNCHANGED notCache

\* The Redis server becomes unreachable, or reachable again.
RedisFlip ==
    /\ l2Configured
    /\ redisUp' = ~redisUp
    /\ UNCHANGED <<l1, l2Configured, redis, cacheLog, now>>
    /\ UNCHANGED notCache

(***************************************************************************)
(* Pattern invalidation.  A key is the sequence of its parts ("user_tasks", *)
(* ":", "1"); a pattern is such a sequence in which "*" is the wildcard.    *)
(***************************************************************************)
PatternKeys == {<<"user_tasks", ":", "1">>, <<"user_tasks", ":", "2">>,
                <<"other", ":", "1">>}

Patterns == {<<"user_tasks", ":", "*">>, <<"other", ":", "*">>,
             <<"user_tasks", ":", "1">>, <<"*">>}

TestTTL == 1

RECURSIVE GlobMatch(_, _)
\* Glob matching as the Redis KEYS command does it: "*" matches any run of
\* parts, every other part matches itself.
GlobMatch(pattern, key) ==
    IF pattern = <<>> THEN key = <<>>
    ELSE IF Head(pattern) = "*"
    THEN \/ GlobMatch(Tail(pattern), key)
         \/ key # <<>> /\ GlobMatch(pattern, Tail(key))
    ELSE /\ key # <<>>
         /\ Head(key) = Head(pattern)
         /\ GlobMatch(Tail(pattern), Tail(key))

\* MemoryCache.DeletePattern: every key matching the glob is removed.
MemoryCache_DeletePattern(m, pattern) ==
    [k \in DOMAIN m |-> IF GlobMatch(pattern, k) THEN NoEntry ELSE m[k]]

\* mutant: RedisCache.DeletePattern deletes every key the server holds
RedisCache_DeletePattern_all(r, pattern, t) ==
    IF ~redisUp THEN [err |-> "failed to get keys for pattern", redis |-> r]
    ELSE [err |-> "nil", redis |-> [k \in DOMAIN r |-> NoRedisEntry]]

\* RedisCache.DeletePattern: KEYS pattern, then DEL of the keys returned.
RedisCache_DeletePattern(r, pattern, t) ==
    IF ~redisUp THEN [err |-> "failed to get keys for pattern", redis |-> r]
    ELSE LET keys == {k \in DOMAIN r : RedisLive(r, k, t) /\ GlobMatch(pattern, k)}
         IN  [err |-> "nil",
              redis |-> [k \in DOMAIN r |-> IF k \in keys THEN NoRedisEntry ELSE r[k]]]

\* MultiLevelCache.DeletePattern: the tiers after the call and the error.
MultiLevelCache_DeletePattern(pattern) ==
    LET m == MemoryCache_DeletePattern(l1, pattern)
    IN  IF l2Configured
        THEN LET d == RedisCache_DeletePattern(redis, pattern, now)
             IN  [l1 |-> m, redis |-> d.redis, err |-> d.err]
        ELSE [l1 |-> m, redis |-> redis, err |-> "nil"]

\* The keys a tier holds.
HeldKeys(tier) == {k \in DOMAIN tier : tier[k].present}

\* The record of a DeletePattern call also keeps the keys each tier held
\* when it was called.
DeletePattern(pattern) ==
    LET r == MultiLevelCache_DeletePattern(pattern)
    IN  /\ l1' = r.l1
        /\ redis' = r.redis
        /\ cacheLog' = [op |-> "DeletePattern", key |-> pattern, err |-> r.err,
                        local |-> HeldKeys(l1), remote |-> HeldKeys(redis)]
        /\ UNCHANGED <<l2Configured, redisUp, now>>
        /\ UNCHANGED notCache

(***************************************************************************)
(* Concurrent callers of one MultiLevelCache.  A Get that misses the local *)
(* tier reads the remote tier and writes the local tier in two steps, a    *)
(* Delete removes the key from the local tier and then from the remote.    *)
(***************************************************************************)
NumReaders == 2

Readers == 1..NumReaders

\* A reader outside Get, with what its last Get returned; afterDelete says
\* that the Get started when its key was in deletedKeys.
GetDone(key, value, err, afterDelete) ==
    [stage |-> "idle", key |-> key, value |-> value, err |-> err,
     afterDelete |-> afterDelete]

NoDelete == [key |-> "", clean |-> TRUE]

\* MultiLevelCache.Get up to the return of l2.Get.
GetBegin(p, key) ==
    /\ getPc[p].stage = "idle"
    /\ getPc' = [getPc EXCEPT ![p] =
          IF MemoryCache_Found(l1, key, now)
          THEN LET c == copyValue(l1[key].value, "int")
               IN  GetDone(key, c.value, c.err, key \in deletedKeys)
          ELSE IF l2Configured
          THEN LET g == RedisCache_Get(redis, key, "int", now)
               IN  IF g.err = "nil"
                   THEN [GetDone(key, g.value, g.err, key \in deletedKeys)
                            EXCEPT !.stage = "backfill"]
                   ELSE GetDone(key, g.value, g.err, key \in deletedKeys)
          ELSE GetDone(key, NoValue, ErrCacheMiss, key \in deletedKeys)]
    /\ UNCHANGED <<delPc, deletedKeys, lastSet, now>>
    /\ UNCHANGED <<cacheVars, notRace>>

\* MultiLevelCache.Get after a remote hit: l1.Set(key, dest, 5 minutes).
GetBackfill(p) ==
    /\ getPc[p].stage = "backfill"
    /\ l1' = MemoryCache_Set(l1, getPc[p].key, [getPc[p].value EXCEPT !.isPtr = TRUE],
                             BackfillTTL, now)
    /\ getPc' = [getPc EXCEPT ![p].stage = "idle"]
    /\ UNCHANGED <<l2Configured, redis, redisUp, cacheLog, delPc, deletedKeys, lastSet, now>>
    /\ UNCHANGED notRace

\* MultiLevelCache.Delete: l1.Delete(key).
DeleteLocal(key) ==
    /\ delPc = NoDelete
    /\ l1' = MemoryCache_Delete(l1, key)
    /\ IF l2Configured
       THEN delPc' = [key |-> key, clean |-> TRUE] /\ UNCHANGED deletedKeys
       ELSE delPc' = NoDelete /\ deletedKeys' = deletedKeys \cup {key}
    /\ lastSet' = [lastSet EXCEPT ![key] = NoValue]
    /\ UNCHANGED <<l2Configured, redis, redisUp, cacheLog, getPc, now>>
    /\ UNCHANGED notRace

\* MultiLevelCache.Delete: l2.Delete(key) and the return.  The key counts
\* as deleted when there was no error and no Set of it during the Delete.
DeleteRemote ==
    /\ delPc # NoDelete
    /\ IF redisUp
       THEN /\ redis' = [redis EXCEPT ![delPc.key] = NoRedisEntry]
            /\ deletedKeys' = IF delPc.clean THEN deletedKeys \cup {delPc.key}
                                             ELSE deletedKeys
       ELSE UNCHANGED <<redis, deletedKeys>>
    /\ delPc' = NoDelete
    /\ lastSet' = [lastSet EXCEPT ![delPc.key] = NoValue]
    /\ UNCHANGED <<l1, l2Configured, redisUp, cacheLog, getPc, now>>
    /\ UNCHANGED notRace

\* MultiLevelCache.Set by another caller.
ConcurrentSet(key, value, ttl) ==
    LET r == MultiLevelCache_Set(key, value, ttl)
    IN  /\ l1' = r.l1
        /\ redis' = r.redis
        /\ deletedKeys' = deletedKeys \ {key}
        /\ lastSet' = [lastSet EXCEPT ![key] = value]
        /\ delPc' = IF delPc.key = key THEN [delPc EXCEPT !.clean = FALSE] ELSE delPc
        /\ UNCHANGED <<l2Configured, redisUp, cacheLog, getPc, now>>
        /\ UNCHANGED notRace

(***************************************************************************)
(* The cached task service on top of the two-tier cache: read-through      *)
(* methods, each with its own key and TTL (in minutes), and invalidation.  *)
(***************************************************************************)
MaxServiceTime == 10

AllTasksKey == "all_tasks"

PaginatedKey == "tasks_paginated:created_at:desc:1:10"

ServiceKeys == {AllTasksKey, PaginatedKey}

AllTasksTTL == 10

PaginatedTTL == 5

\* The TTL every Set of the key is made with.
OriginalTTL(key) ==
    IF key = AllTasksKey THEN AllTasksTTL ELSE PaginatedTTL

\* The read-through body shared by GetTasks and GetTasksPaginated: Get; on
\* any error fetch from the database and Set, ignoring Set's error.  The
\* tiers after the call.
cachedRead(key, fresh) ==
    LET g == MultiLevelCache_Get(key, "int")
    IN  IF g.err = "nil"
        THEN [l1 |-> g.l1, redis |-> redis]
        ELSE LET r == MultiLevelCache_Set(key, fresh, OriginalTTL(key))
             IN  [l1 |-> r.l1, redis |-> r.redis]

ServiceRead(key, fresh) ==
    LET r == cachedRead(key, fresh)
    IN  /\ l1' = r.l1
        /\ redis' = r.redis
        /\ UNCHANGED <<l2Configured, redisUp, cacheLog, now>>
        /\ UNCHANGED notCache

GetTasks(fresh) == ServiceRead(AllTasksKey, fresh)

GetTasksPaginated(fresh) == ServiceRead(PaginatedKey, fresh)

\* The process restarts: NewMultiLevelCache makes a new, empty local tier;
\* the Redis server keeps its entries.
Restart ==
    /\ l1' = [k \in DOMAIN l1 |-> NoEntry]
    /\ UNCHANGED <<l2Configured, redis, redisUp, cacheLog, now>>
    /\ UNCHANGED notCache

\* Time passes for the service.
ServiceTick ==
    /\ now < MaxServiceTime
    /\ now' = now + 1
    /\ UNCHANGED cacheVars
    /\ UNCHANGED notCache

(***************************************************************************)
(* CachedTaskService: the per-user task list and the mutations that        *)
(* invalidate it.  A key is the sequence of its parts.                     *)
(***************************************************************************)
Users == {"1", "2"}

TaskTTL == 30
UserTasksTTL == 15

\* fmt.Sprintf("user_tasks:%s", userID), the key GetTasksByUser reads and writes.
UserTasksKey(u) == <<"user_tasks", ":", u>>

\* fmt.Sprintf("user_tasks:%s:*", task.UserID), the pattern of the mutations.
UserTasksPattern(u) == <<"user_tasks", ":", u, ":", "*">>

\* fmt.Sprintf("task:%s", id) of the one task of user u.
TaskKey(u) == <<"task", ":", u>>

TaskServiceKeys ==
    {UserTasksKey(u) : u \in Users} \cup {TaskKey(u) : u \in Users}
       \cup {<<"tasks_paginated", ":", "1">>, <<"all_tasks">>}

\* MultiLevelCache.Set, Delete and DeletePattern on given tiers, errors ignored
\* as the service ignores them.
TierSet(t, key, value, ttl) ==
    [l1 |-> MemoryCache_Set(t.l1, key, value, ttl, now),
     redis |-> IF l2Configured THEN RedisCache_Set(t.redis, key, value, ttl, now).redis
                               ELSE t.redis]

TierDelete(t, key) ==
    [l1 |-> MemoryCache_Delete(t.l1, key),
     redis |-> IF l2Configured /\ redisUp THEN [t.redis EXCEPT ![key] = NoRedisEntry]
                                          ELSE t.redis]

TierDeletePattern(t, pattern) ==
    [l1 |-> MemoryCache_DeletePattern(t.l1, pattern),
     redis |-> IF l2Configured THEN RedisCache_DeletePattern(t.redis, pattern, now).redis
                               ELSE t.redis]

\* The invalidation every mutation ends with: the user's pattern when the
\* task's owner is known, the paginated lists, the list of all tasks.
invalidate(t, u, ownerKnown) ==
    LET a == IF ownerKnown THEN TierDeletePattern(t, UserTasksPattern(u)) ELSE t
        b == TierDeletePattern(a, <<"tasks_paginated", ":", "*">>)
    IN  TierDelete(b, <<"all_tasks">>)

\* What a service call leaves in the log.
ServiceCall(op, u, hit, value) == [op |-> op, key |-> u, hit |-> hit, value |-> value]

\* CachedTaskService.CreateTask of a task of user u that the database took.
CreateTask(u, task) ==
    LET t == invalidate(TierSet([l1 |-> l1, redis |-> redis], TaskKey(u), task, TaskTTL),
                        u, TRUE)
    IN  /\ l1' = t.l1
        /\ redis' = t.redis
        /\ cacheLog' = ServiceCall("CreateTask", u, FALSE, task)
        /\ UNCHANGED <<l2Configured, redisUp, now>>
        /\ UNCHANGED notCache

\* CachedTaskService.UpdateTask and DeleteTask of the task of user u that the
\* database took; ownerKnown says that GetTaskByID found the task.
ChangeTask(op, u, ownerKnown) ==
    LET t == invalidate(TierDelete([l1 |-> l1, redis |-> redis], TaskKey(u)),
                        u, ownerKnown)
    IN  /\ l1' = t.l1
        /\ redis' = t.redis
        /\ cacheLog' = ServiceCall(op, u, FALSE, NoValue)
        /\ UNCHANGED <<l2Configured, redisUp, now>>
        /\ UNCHANGED notCache

UpdateTask(u, ownerKnown) == ChangeTask("UpdateTask", u, ownerKnown)

DeleteTask(u, ownerKnown) == ChangeTask("DeleteTask", u, ownerKnown)

\* CachedTaskService.GetTasksByUser: the cached list on a hit, else the
\* list the database holds (fresh), which is then cached.
GetTasksByUser(u, fresh) ==
    LET g == MultiLevelCache_Get(UserTasksKey(u), "int")
        r == MultiLevelCache_Set(UserTasksKey(u), fresh, UserTasksTTL)
    IN  /\ IF g.err = "nil"
           THEN /\ l1' = g.l1
                /\ redis' = redis
                /\ cacheLog' = ServiceCall("GetTasksByUser", u, TRUE, g.value)
           ELSE /\ l1' = r.l1
                /\ redis' = r.redis
                /\ cacheLog' = ServiceCall("GetTasksByUser", u, FALSE, fresh)
        /\ UNCHANGED <<l2Configured, redisUp, now>>
        /\ UNCHANGED notCache

(***************************************************************************)
(* Unified cache manager over the legacy CacheWarmer or the integrated     *)
(* warmer.  A nil pointer is FALSE, a non-nil one TRUE.                    *)
(***************************************************************************)
MaxManagerJobs == 1

ModeAuto == "ModeAuto"
ModeLegacy == "ModeLegacy"
ModeIntegrated == "ModeIntegrated"
ModeLocalOnly == "ModeLocalOnly"
ModeDistributed == "ModeDistributed"

\* The values of CacheWarmingMode, one of them outside the declared ones.
Modes == {ModeAuto, ModeLegacy, ModeIntegrated, ModeLocalOnly, ModeDistributed,
          "ModeUnknown"}

MaxBatchSize == 2
MaxConcurrentJobs == 2

\* The BatchSize and ConcurrentJobs of the default configuration.
DefaultBatchSize == 10
DefaultConcurrentJobs == 3

\* WarmupStrategy without its Jobs: HealthCheckFunc says whether the function
\* is set, WarmupInterval is zero or a positive duration.
WarmerStrategies ==
    [UseWorkerPool : BOOLEAN, UseScheduler : BOOLEAN,
     BatchSize : 0..MaxBatchSize, ConcurrentJobs : 0..MaxConcurrentJobs,
     WarmupInterval : 0..1, HealthCheckFunc : BOOLEAN]

\* The strategies the manager is configured with: the default sizes and
\* interval, any choice of worker pool and scheduler.
Strategies ==
    [UseWorkerPool : BOOLEAN, UseScheduler : BOOLEAN,
     BatchSize : {DefaultBatchSize}, ConcurrentJobs : {DefaultConcurrentJobs},
     WarmupInterval : {1}, HealthCheckFunc : {FALSE}]

\* mutant: a forced mode is taken as it is, with or without a client
determineMode_forced(mode, client, pingOk) ==
    CASE mode = ModeLegacy -> ModeLegacy
      [] mode \in {ModeIntegrated, ModeLocalOnly, ModeDistributed} -> mode
      [] mode = ModeAuto -> IF client /\ pingOk THEN ModeIntegrated ELSE ModeLegacy
      [] OTHER -> ModeLegacy

\* UnifiedCacheManager.determineMode; pingOk is the outcome of the Ping.
determineMode(mode, client, pingOk) ==
    CASE mode = ModeLegacy -> ModeLegacy
      [] mode \in {ModeIntegrated, ModeLocalOnly, ModeDistributed} ->
           IF client THEN mode ELSE ModeLegacy
      [] mode = ModeAuto -> IF client /\ pingOk THEN ModeIntegrated ELSE ModeLegacy
      [] OTHER -> ModeLegacy

\* mutant: the constructor builds both warmers
NewUnifiedCacheManager_both(mode, client, pingOk) ==
    LET actualMode == determineMode(mode, client, pingOk)
    IN  [mode |-> mode, client |-> client, pingOk |-> pingOk,
         useIntegrated |-> actualMode # ModeLegacy,
         integratedWarmer |-> TRUE,
         legacyWarmer |-> TRUE]

\* NewUnifiedCacheManager: the struct, with the config it was built from.
NewUnifiedCacheManager(mode, client, pingOk) ==
    LET actualMode == determineMode(mode, client, pingOk)
    IN  [mode |-> mode, client |-> client, pingOk |-> pingOk,
         useIntegrated |-> actualMode # ModeLegacy,
         integratedWarmer |-> actualMode # ModeLegacy,
         legacyWarmer |-> actualMode = ModeLegacy]

\* NewCacheWarmer with a strategy that carries no jobs: the worker pool and
\* the scheduler exist when the strategy asks for them.  poolPending and
\* schedJobs are the keys of the jobs the pool and the scheduler hold,
\* passPending says that a warmCache goroutine has been started and has not
\* run yet, tickerAlive that the ticker goroutine is in its loop.
NewCacheWarmer(strategy) ==
    [strategy |-> strategy, running |-> FALSE, stopChClosed |-> FALSE,
     workerPool |-> strategy.UseWorkerPool, scheduler |-> strategy.UseScheduler,
     passPending |-> FALSE, tickerAlive |-> FALSE,
     poolRunning |-> FALSE, poolPending |-> {},
     schedRunning |-> FALSE, schedJobs |-> {}]

\* The warmer variable of a manager that has no legacy warmer.
NoWarmer ==
    NewCacheWarmer([UseWorkerPool |-> FALSE, UseScheduler |-> FALSE,
                    BatchSize |-> DefaultBatchSize,
                    ConcurrentJobs |-> DefaultConcurrentJobs,
                    WarmupInterval |-> 1, HealthCheckFunc |-> FALSE])

\* NewIntegratedCacheWarmer: running, and the kinds of job it was handed.
NewIntegratedCacheWarmer == [running |-> FALSE, routed |-> {}]

KeysOf(q) == {q[i].Job.Key : i \in DOMAIN q}

\* CacheWarmer.Start: with a scheduler the queued jobs are scheduled; without
\* one a warmCache goroutine and the ticker goroutine are started, and the
\* ticker goroutine leaves at once when stopCh is already closed.
CacheWarmer_Start(w, q) ==
    IF w.running THEN w
    ELSE LET s == [w EXCEPT !.running = TRUE,
                            !.poolRunning = w.workerPool,
                            !.schedRunning = w.scheduler]
         IN  IF s.strategy.UseScheduler /\ s.scheduler
             THEN [s EXCEPT !.schedJobs = @ \cup KeysOf(q)]
             ELSE [s EXCEPT !.passPending = TRUE,
                            !.tickerAlive = s.strategy.WarmupInterval > 0
                                               /\ ~s.stopChClosed]

\* CacheWarmer.Stop: the warmer after the call, and whether close(stopCh)
\* panicked because the channel was closed by an earlier Stop.
CacheWarmer_Stop(w) ==
    IF ~w.running THEN [w |-> w, panic |-> FALSE]
    ELSE LET s == [w EXCEPT !.running = FALSE, !.schedRunning = FALSE,
                            !.poolRunning = FALSE]
         IN  IF w.stopChClosed
             THEN [w |-> s, panic |-> TRUE]
             ELSE [w |-> [s EXCEPT !.stopChClosed = TRUE, !.tickerAlive = FALSE],
                   panic |-> FALSE]

\* CacheWarmer.AddWarmupJob: push, and ScheduleJob when a scheduler runs.
CacheWarmer_AddWarmupJob(w, q, job) ==
    [q |-> heap_Push(q, [Job |-> job, Priority |-> job.Priority, Index |-> 0]),
     w |-> IF w.scheduler /\ w.schedRunning
           THEN [w EXCEPT !.schedJobs = @ \cup {job.Key}]
           ELSE w]

\* processBatch(ctx, jobs, concurrency): the jobs handed to processJob.  The
\* channel holds every job of the batch; min(concurrency, len(jobs)) workers
\* drain it, and with no worker nothing is taken from it.
processBatch(jobs, concurrency) ==
    IF concurrency > 0 THEN jobs ELSE <<>>

\* The loop of warmCache from index i on: the jobs handed to processJob,
\* batch after batch.  With BatchSize 0 every batch is empty and the loop
\* never ends.
RECURSIVE batchLoop(_, _, _, _)
batchLoop(jobs, i, batchSize, concurrency) ==
    IF batchSize <= 0 \/ i >= Len(jobs) THEN <<>>
    ELSE LET end == IF i + batchSize > Len(jobs) THEN Len(jobs) ELSE i + batchSize
         IN  processBatch(SubSeq(jobs, i + 1, end), concurrency)
                \o batchLoop(jobs, end, batchSize, concurrency)

\* The history of the warmer: the keys a job has been applied for more than
\* once, whether a tick has been skipped, and the size of the last batch
\* pass with the number of cache.Set calls it made.
\* The loop "for i := 0; i < n; i += batchSize" of warmCache leaves within
\* fuel iterations.
RECURSIVE loopEnds(_, _, _, _)
loopEnds(n, i, batchSize, fuel) ==
    IF i >= n THEN TRUE
    ELSE IF fuel = 0 THEN FALSE
    ELSE loopEnds(n, i + batchSize, batchSize, fuel - 1)

NoWarmLog ==
    [reapplied |-> {}, skipped |-> FALSE, spinning |-> FALSE,
     pass |-> [jobs |-> 0, sets |-> 0]]

\* cache.Set is called for each of the jobs; m is the cache before.  Nothing
\* but a warm-up job writes this cache, so a key it holds has been applied.
Applied(log, m, jobs) ==
    [log EXCEPT !.reapplied =
        @ \cup {k \in JobKeys :
                  LET n == Cardinality({i \in DOMAIN jobs : jobs[i].Key = k})
                  IN  n > 1 \/ (n = 1 /\ m[k].present)}]

\* The jobs of a set of keys, in some order.
RECURSIVE SeqOf(_)
SeqOf(keys) ==
    IF keys = {} THEN <<>>
    ELSE LET k == CHOOSE x \in keys : TRUE
         IN  <<[Key |-> k, Priority |-> 0]>> \o SeqOf(keys \ {k})

\* processJob for each of the keys: cache.Set(job.Key, job.Data, job.TTL).
WarmKeys(m, keys) ==
    [k \in DOMAIN m |->
        IF k \in keys
        THEN [present |-> TRUE, value |-> GoValue("int", 1), expiresAt |-> now + TestTTL]
        ELSE m[k]]

\* The record kept of a manager call.
ManagerCall(op, key, err) == [op |-> op, key |-> key, err |-> err]

\* close of a closed channel has ended the process.
Panicked == lastCall.err = "panic"

\* What no call of the manager touches.
ManagerFrame ==
    UNCHANGED <<breakerVars, raceVars, workerVars, threadVars, now, popRet, popped, pushed,
                inspected,
                l2Configured, redis, redisUp, cacheLog>>

\* UnifiedCacheManager.Start
Start ==
    /\ ~Panicked
    /\ IF ucm.useIntegrated
       THEN iw' = [iw EXCEPT !.running = TRUE] /\ UNCHANGED cw
       ELSE cw' = CacheWarmer_Start(cw, items) /\ UNCHANGED iw
    /\ lastCall' = ManagerCall("Start", "", "nil")
    /\ UNCHANGED <<ucm, items, l1>>
    /\ UNCHANGED warmLog
    /\ ManagerFrame

\* UnifiedCacheManager.Stop
Stop ==
    /\ ~Panicked
    /\ IF ucm.useIntegrated
       THEN /\ iw' = [iw EXCEPT !.running = FALSE]
            /\ lastCall' = ManagerCall("Stop", "", "nil")
            /\ UNCHANGED cw
       ELSE LET r == CacheWarmer_Stop(cw)
            IN  /\ cw' = r.w
                /\ lastCall' = ManagerCall("Stop", "", IF r.panic THEN "panic" ELSE "nil")
                /\ UNCHANGED iw
    /\ UNCHANGED <<ucm, items, l1>>
    /\ UNCHANGED warmLog
    /\ ManagerFrame

\* UnifiedCacheManager.WarmupCache; in legacy mode WarmCacheManually, which
\* has the scheduler process its jobs or starts a warmCache goroutine.
WarmupCache ==
    /\ ~Panicked
    /\ IF ucm.useIntegrated
       THEN UNCHANGED <<cw, l1, warmLog>>
       ELSE IF cw.strategy.UseScheduler /\ cw.scheduler
       THEN /\ l1' = WarmKeys(l1, cw.schedJobs)
            /\ cw' = [cw EXCEPT !.schedJobs = {}]
            /\ warmLog' = Applied(warmLog, l1, SeqOf(cw.schedJobs))
       ELSE /\ cw' = [cw EXCEPT !.passPending = TRUE]
            /\ UNCHANGED <<l1, warmLog>>
    /\ lastCall' = ManagerCall("WarmupCache", "", "nil")
    /\ UNCHANGED <<ucm, iw, items>>
    /\ ManagerFrame

\* UnifiedCacheManager.EnqueueWarmupJob
EnqueueWarmupJob(key, priority) ==
    /\ ~Panicked
    /\ Len(items) < MaxManagerJobs
    /\ IF ucm.useIntegrated
       THEN /\ iw' = [iw EXCEPT !.routed = @ \cup {"warmup"}]
            /\ UNCHANGED <<cw, items>>
       ELSE LET r == CacheWarmer_AddWarmupJob(cw, items,
                                              [Key |-> key, Priority |-> priority])
            IN  /\ items' = r.q
                /\ cw' = r.w
                /\ UNCHANGED iw
    /\ lastCall' = ManagerCall("EnqueueWarmupJob", key, "nil")
    /\ UNCHANGED <<ucm, l1>>
    /\ UNCHANGED warmLog
    /\ ManagerFrame

\* UnifiedCacheManager.EnqueueScheduledWarmup; processAt is not looked at
\* in legacy mode.
EnqueueScheduledWarmup(key, processAt, priority) ==
    /\ ~Panicked
    /\ Len(items) < MaxManagerJobs
    /\ IF ucm.useIntegrated
       THEN /\ iw' = [iw EXCEPT !.routed = @ \cup {"scheduled"}]
            /\ UNCHANGED <<cw, items>>
       ELSE LET r == CacheWarmer_AddWarmupJob(cw, items,
                                              [Key |-> key, Priority |-> priority])
            IN  /\ items' = r.q
                /\ cw' = r.w
                /\ UNCHANGED iw
    /\ lastCall' = ManagerCall("EnqueueScheduledWarmup", key, "nil")
    /\ UNCHANGED <<ucm, l1>>
    /\ UNCHANGED warmLog
    /\ ManagerFrame

\* UnifiedCacheManager.EnqueueEvictionJob
EnqueueEvictionJob(key) ==
    /\ ~Panicked
    /\ IF ucm.useIntegrated
       THEN /\ iw' = [iw EXCEPT !.routed = @ \cup {"eviction"}]
            /\ lastCall' = ManagerCall("EnqueueEvictionJob", key, "nil")
       ELSE /\ lastCall' = ManagerCall("EnqueueEvictionJob", key,
                                       "eviction jobs not supported in legacy mode")
            /\ UNCHANGED iw
    /\ UNCHANGED <<ucm, cw, items, l1>>
    /\ UNCHANGED warmLog
    /\ ManagerFrame

\* UnifiedCacheManager.EnqueueValidationJob
EnqueueValidationJob(key) ==
    /\ ~Panicked
    /\ IF ucm.useIntegrated
       THEN /\ iw' = [iw EXCEPT !.routed = @ \cup {"validation"}]
            /\ lastCall' = ManagerCall("EnqueueValidationJob", key, "nil")
       ELSE /\ lastCall' = ManagerCall("EnqueueValidationJob", key,
                                       "validation jobs not supported in legacy mode")
            /\ UNCHANGED iw
    /\ UNCHANGED <<ucm, cw, items, l1>>
    /\ UNCHANGED warmLog
    /\ ManagerFrame

\* mutant: SchedulePeriodicWarmup without the legacy-mode check
SchedulePeriodicWarmup_unguarded(key) ==
    /\ ~Panicked
    /\ Len(items) < MaxManagerJobs
    /\ IF ucm.useIntegrated
       THEN /\ iw' = [iw EXCEPT !.routed = @ \cup {"scheduled"}]
            /\ UNCHANGED <<cw, items>>
       ELSE LET r == CacheWarmer_AddWarmupJob(cw, items, [Key |-> key, Priority |-> 3])
            IN  /\ items' = r.q
                /\ cw' = r.w
                /\ UNCHANGED iw
    /\ lastCall' = ManagerCall("SchedulePeriodicWarmup", key, "nil")
    /\ UNCHANGED <<ucm, l1>>
    /\ UNCHANGED warmLog
    /\ ManagerFrame

\* UnifiedCacheManager.SchedulePeriodicWarmup
SchedulePeriodicWarmup(key) ==
    /\ ~Panicked
    /\ IF ucm.useIntegrated
       THEN /\ iw' = [iw EXCEPT !.routed = @ \cup {"scheduled"}]
            /\ lastCall' = ManagerCall("SchedulePeriodicWarmup", key, "nil")
       ELSE /\ lastCall' = ManagerCall("SchedulePeriodicWarmup", key,
                                       "periodic warmup requires integrated mode")
            /\ UNCHANGED iw
    /\ UNCHANGED <<ucm, cw, items, l1>>
    /\ UNCHANGED warmLog
    /\ ManagerFrame

\* UnifiedCacheManager.IsRunning: legacyWarmer != nil in legacy mode.
IsRunning == IF ucm.useIntegrated THEN iw.running ELSE ucm.legacyWarmer

\* UnifiedCacheManager.UpdateConfiguration(newStrategy); isNil says that
\* newStrategy is nil.
UpdateConfiguration(isNil, newStrategy) ==
    /\ ~Panicked
    /\ IF isNil
       THEN /\ lastCall' = ManagerCall("UpdateConfiguration", "", "strategy cannot be nil")
            /\ UNCHANGED cw
       ELSE IF ucm.useIntegrated
       THEN /\ lastCall' = ManagerCall("UpdateConfiguration", "", "nil")
            /\ UNCHANGED cw
       ELSE LET wasRunning == IsRunning
                r == IF wasRunning THEN CacheWarmer_Stop(cw)
                                   ELSE [w |-> cw, panic |-> FALSE]
                swapped == [r.w EXCEPT !.strategy = newStrategy]
            IN  IF r.panic
                THEN /\ cw' = r.w
                     /\ lastCall' = ManagerCall("UpdateConfiguration", "", "panic")
                ELSE /\ cw' = IF wasRunning THEN CacheWarmer_Start(swapped, items)
                                            ELSE swapped
                     /\ lastCall' = ManagerCall("UpdateConfiguration", "", "nil")
    /\ UNCHANGED <<ucm, iw, items, l1>>
    /\ UNCHANGED warmLog
    /\ ManagerFrame

\* UnifiedCacheManager.GetMetrics
GetMetrics ==
    /\ ~Panicked
    /\ lastCall' = ManagerCall("GetMetrics", "", "nil")
    /\ UNCHANGED <<ucm, cw, iw, items, l1>>
    /\ UNCHANGED warmLog
    /\ ManagerFrame

\* UnifiedCacheManager.HealthCheck
HealthCheck ==
    /\ ~Panicked
    /\ lastCall' = ManagerCall("HealthCheck", "", "nil")
    /\ UNCHANGED <<ucm, cw, iw, items, l1>>
    /\ UNCHANGED warmLog
    /\ ManagerFrame

\* A warmCache goroutine runs: the queued jobs (GetJobs, nothing is popped)
\* go to the worker pool, or are applied to the cache batch after batch.
warmCache ==
    /\ ~Panicked
    /\ ~ucm.useIntegrated
    /\ cw.passPending
    /\ LET jobs == GetJobs
           useWorkerPool == cw.strategy.UseWorkerPool /\ cw.workerPool
           done == batchLoop(jobs, 0, cw.strategy.BatchSize, cw.strategy.ConcurrentJobs)
       IN  IF Len(jobs) = 0
           THEN /\ cw' = [cw EXCEPT !.passPending = FALSE]
                /\ UNCHANGED <<l1, warmLog>>
           ELSE IF useWorkerPool
           THEN /\ cw' = [cw EXCEPT !.passPending = FALSE,
                                    !.poolPending = @ \cup KeysOf(items)]
                /\ UNCHANGED <<l1, warmLog>>
           ELSE IF ~loopEnds(Len(jobs), 0, cw.strategy.BatchSize, Len(jobs))
           THEN /\ warmLog' = [warmLog EXCEPT !.spinning = TRUE,
                                              !.pass = [jobs |-> Len(jobs), sets |-> 0]]
                /\ UNCHANGED <<cw, l1>>
           ELSE /\ cw' = [cw EXCEPT !.passPending = FALSE]
                /\ l1' = WarmKeys(l1, {done[i].Key : i \in DOMAIN done})
                /\ warmLog' = [Applied(warmLog, l1, done) EXCEPT
                                  !.pass = [jobs |-> Len(jobs), sets |-> Len(done)]]
    /\ UNCHANGED <<ucm, iw, items, lastCall>>
    /\ ManagerFrame

\* CacheWarmer.shouldWarmup; h is what HealthCheckFunc returns when called.
shouldWarmup(h) ==
    IF cw.strategy.HealthCheckFunc THEN h ELSE (~l2Configured \/ redisUp)

\* mutant: the tick starts a pass whatever shouldWarmup says
TickerFire_unguarded(h) ==
    /\ ~Panicked
    /\ ~ucm.useIntegrated
    /\ cw.tickerAlive
    /\ ~cw.passPending
    /\ cw' = [cw EXCEPT !.passPending = TRUE]
    /\ warmLog' = [warmLog EXCEPT !.skipped = @ \/ ~shouldWarmup(h)]
    /\ UNCHANGED <<ucm, iw, items, l1, lastCall>>
    /\ ManagerFrame

\* The ticker of CacheWarmer.Start fires: go warmCache when shouldWarmup.
TickerFire(h) ==
    /\ ~Panicked
    /\ ~ucm.useIntegrated
    /\ cw.tickerAlive
    /\ ~cw.passPending
    /\ IF shouldWarmup(h)
       THEN /\ cw' = [cw EXCEPT !.passPending = TRUE]
            /\ UNCHANGED warmLog
       ELSE /\ warmLog' = [warmLog EXCEPT !.skipped = TRUE]
            /\ UNCHANGED cw
    /\ UNCHANGED <<ucm, iw, items, l1, lastCall>>
    /\ ManagerFrame

\* A worker of the pool applies the job of key k.
WorkerRun(k) ==
    /\ ~Panicked
    /\ cw.poolRunning
    /\ k \in cw.poolPending
    /\ l1' = WarmKeys(l1, {k})
    /\ cw' = [cw EXCEPT !.poolPending = @ \ {k}]
    /\ warmLog' = Applied(warmLog, l1, SeqOf({k}))
    /\ UNCHANGED <<ucm, iw, items, lastCall>>
    /\ ManagerFrame

\* The scheduler hands its job of key k to the worker pool, or applies it
\* when there is no pool.
SchedulerRun(k) ==
    /\ ~Panicked
    /\ cw.schedRunning
    /\ k \in cw.schedJobs
    /\ IF cw.workerPool
       THEN /\ cw' = [cw EXCEPT !.schedJobs = @ \ {k}, !.poolPending = @ \cup {k}]
            /\ UNCHANGED <<l1, warmLog>>
       ELSE /\ cw' = [cw EXCEPT !.schedJobs = @ \ {k}]
            /\ l1' = WarmKeys(l1, {k})
            /\ warmLog' = Applied(warmLog, l1, SeqOf({k}))
    /\ UNCHANGED <<ucm, iw, items, lastCall>>
    /\ ManagerFrame

(***************************************************************************)
(* The locks of the legacy warmer.  Each CacheWarmer method is the         *)
(* sequence of its lock operations, its calls into other components and    *)
(* its effect; a thread runs one method at a time, one step at a time.     *)
(***************************************************************************)
Threads == {"t1", "t2"}

CwMu == "cw.mu"
PqMu == "pq.mu"

Ins(do, arg) == [do |-> do, arg |-> arg]

\* CacheWarmer.AddWarmupJob: Lock, priorityQueue.Push (which locks the
\* queue), the scheduler when there is one, deferred Unlock.
AddWarmupJob_steps ==
    <<Ins("Lock", CwMu), Ins("Lock", PqMu), Ins("effect", "Push"), Ins("Unlock", PqMu),
      Ins("call", "scheduler"), Ins("Unlock", CwMu)>>

\* CacheWarmer.GetStats: RLock, priorityQueue.Len, the pool's and the
\* scheduler's GetStats, priorityQueue.Len again, deferred RUnlock.
GetStats_steps ==
    <<Ins("RLock", CwMu), Ins("RLock", PqMu), Ins("RUnlock", PqMu),
      Ins("call", "workerPool"), Ins("call", "scheduler"),
      Ins("RLock", PqMu), Ins("RUnlock", PqMu), Ins("RUnlock", CwMu)>>

\* CacheWarmer.warmCache up to the RUnlock: priorityQueue.GetJobs is called
\* under the read lock.
warmCache_steps ==
    <<Ins("RLock", CwMu), Ins("RLock", PqMu), Ins("effect", "GetJobs"),
      Ins("RUnlock", PqMu), Ins("RUnlock", CwMu), Ins("effect", "process")>>

\* CacheWarmer.Stop: Lock, and for a running warmer scheduler.Stop,
\* workerPool.Stop and the close of stopCh, deferred Unlock.
Stop_steps ==
    <<Ins("Lock", CwMu), Ins("call", "scheduler"), Ins("call", "workerPool"),
      Ins("effect", "Stop"), Ins("Unlock", CwMu)>>

\* CacheWarmer.Start: the running flag under the lock (a running warmer
\* returns there), then priorityQueue.Len and the launches without it.
Start_steps ==
    <<Ins("Lock", CwMu), Ins("effect", "Start"), Ins("Unlock", CwMu),
      Ins("RLock", PqMu), Ins("RUnlock", PqMu)>>

Methods == {"AddWarmupJob", "GetStats", "warmCache", "Stop", "Start"}

Steps(m) ==
    CASE m = "AddWarmupJob" -> AddWarmupJob_steps
      [] m = "GetStats" -> GetStats_steps
      [] m = "warmCache" -> warmCache_steps
      [] m = "Stop" -> Stop_steps
      [] m = "Start" -> Start_steps

\* A thread outside every method.
NoThread ==
    [method |-> "", pc |-> 0, held |-> {}, in |-> "", key |-> "", jobs |-> <<>>,
     early |-> FALSE]

\* sync.RWMutex: Lock waits for every other holder, RLock for a writer.
CanLock(t, l) == \A u \in Threads \ {t} : \A h \in th[u].held : h[1] # l
CanRLock(t, l) == \A u \in Threads \ {t} : <<l, "w">> \notin th[u].held

\* The component named by arg exists in this warmer.
Has(arg) == IF arg = "scheduler" THEN cw.scheduler ELSE cw.workerPool

\* Thread t enters a method: AddWarmupJob with a job for key, warmCache as
\* the goroutine that Start launched.
Enter(t, m, key) ==
    /\ ~Panicked
    /\ th[t].method = ""
    /\ m = "AddWarmupJob" => (key \in JobKeys /\ Len(items) < MaxManagerJobs)
    /\ m # "AddWarmupJob" => key = ""
    /\ m = "warmCache" => cw.passPending
    /\ cw' = IF m = "warmCache" THEN [cw EXCEPT !.passPending = FALSE] ELSE cw
    /\ th' = [th EXCEPT ![t] = [NoThread EXCEPT !.method = m, !.key = key]]
    /\ UNCHANGED <<breakerVars, queueVars, cacheVars, raceVars, workerVars, now,
                   ucm, iw, lastCall, warmLog>>

\* The effect of the step of thread t on the warmer, the queue and the cache.
Effect(t, arg) ==
    CASE arg = "Push" ->
           /\ items' = CacheWarmer_AddWarmupJob(cw, items,
                          [Key |-> th[t].key, Priority |-> MaxPriority]).q
           /\ cw' = CacheWarmer_AddWarmupJob(cw, items,
                          [Key |-> th[t].key, Priority |-> MaxPriority]).w
           /\ UNCHANGED <<l1, warmLog, lastCall>>
      [] arg = "GetJobs" -> UNCHANGED <<items, cw, l1, warmLog, lastCall>>
      [] arg = "process" ->
           LET jobs == th[t].jobs
               done == batchLoop(jobs, 0, cw.strategy.BatchSize, cw.strategy.ConcurrentJobs)
           IN  IF Len(jobs) = 0
               THEN UNCHANGED <<items, cw, l1, warmLog, lastCall>>
               ELSE IF cw.strategy.UseWorkerPool /\ cw.workerPool
               THEN /\ cw' = [cw EXCEPT !.poolPending = @ \cup {jobs[i].Key : i \in DOMAIN jobs}]
                    /\ UNCHANGED <<items, l1, warmLog, lastCall>>
               ELSE /\ l1' = WarmKeys(l1, {done[i].Key : i \in DOMAIN done})
                    /\ warmLog' = [Applied(warmLog, l1, done) EXCEPT
                                      !.pass = [jobs |-> Len(jobs), sets |-> Len(done)]]
                    /\ UNCHANGED <<items, cw, lastCall>>
      [] arg = "Stop" ->
           /\ cw' = CacheWarmer_Stop(cw).w
           /\ lastCall' = IF CacheWarmer_Stop(cw).panic
                          THEN ManagerCall("Stop", "", "panic") ELSE lastCall
           /\ UNCHANGED <<items, l1, warmLog>>
      [] arg = "Start" ->
           /\ cw' = CacheWarmer_Start(cw, items)
           /\ UNCHANGED <<items, l1, warmLog, lastCall>>

\* Thread t takes the next step of its method.
Step(t) ==
    /\ ~Panicked
    /\ th[t].method # ""
    /\ LET code == Steps(th[t].method)
           i == code[th[t].pc + 1]
           last == th[t].pc + 1 = Len(code)
           next == IF last THEN NoThread ELSE [th[t] EXCEPT !.pc = @ + 1, !.in = ""]
       IN  CASE i.do = "Lock" ->
                  /\ CanLock(t, i.arg)
                  /\ th' = [th EXCEPT ![t] = [next EXCEPT !.held = @ \cup {<<i.arg, "w">>}]]
                  /\ UNCHANGED <<items, cw, l1, warmLog, lastCall>>
             [] i.do = "RLock" ->
                  /\ CanRLock(t, i.arg)
                  /\ th' = [th EXCEPT ![t] = [next EXCEPT !.held = @ \cup {<<i.arg, "r">>}]]
                  /\ UNCHANGED <<items, cw, l1, warmLog, lastCall>>
             [] i.do \in {"Unlock", "RUnlock"} ->
                  /\ th' = [th EXCEPT ![t] =
                              IF last \/ th[t].early THEN NoThread
                              ELSE [next EXCEPT !.held = {h \in @ : h[1] # i.arg}]]
                  /\ UNCHANGED <<items, cw, l1, warmLog, lastCall>>
             [] i.do = "call" ->
                  /\ th' = [th EXCEPT ![t] =
                              [next EXCEPT !.in =
                                  IF Has(i.arg) /\ (th[t].method = "Stop" => cw.running)
                                  THEN i.arg ELSE ""]]
                  /\ UNCHANGED <<items, cw, l1, warmLog, lastCall>>
             [] i.do = "effect" ->
                  /\ th' = [th EXCEPT ![t] =
                              IF last THEN NoThread
                              ELSE [next EXCEPT !.in = IF i.arg \in {"Push", "GetJobs"}
                                                       THEN "priorityQueue" ELSE "",
                                                !.jobs = IF i.arg = "GetJobs"
                                                         THEN GetJobs ELSE @,
                                                !.early = i.arg = "Start" /\ cw.running]]
                  /\ Effect(t, i.arg)
    /\ UNCHANGED <<breakerVars, cacheLog, l2Configured, redis, redisUp, raceVars,
                   workerVars, now, popRet, popped, pushed, inspected, ucm, iw>>

(***************************************************************************)
(* Background worker over Redis lists.  A list is the sequence of its      *)
(* entries, head first; time is counted in minutes.                        *)
(***************************************************************************)
MaxMaxTries == 3
MaxWorkerTime == 7
MaxWorkerJobs == 2
MaxPayload == 1

JobIDs == {"j1", "j2"}

RetryQueue == "retry_queue"
DeadQueue == "dead_queue"
DefaultQueue == "default"

QueueNames == {DefaultQueue, RetryQueue, DeadQueue}

\* WorkerConfig.Queues: the lists the worker pops from, in BLPop's order.
WorkerQueues ==
    {<<DefaultQueue>>, <<DefaultQueue, RetryQueue>>, <<RetryQueue, DefaultQueue>>}

\* A number of a job's payload: big says that it is 2^53 + d, else it is d.
\* In the list it is the JSON literal with all its digits.
PayloadNumbers == [big : BOOLEAN, d : 0..MaxPayload]

\* The float64 that json.Unmarshal stores for a JSON number in a
\* map[string]interface{}: exact below 2^53; from 2^53 to 2^54 the nearest
\* even integer, a tie going to the even mantissa.
float64Of(n) ==
    IF ~n.big \/ n.d % 2 = 0 THEN n
    ELSE LET m == n.d \div 2
         IN  [n EXCEPT !.d = IF m % 2 = 0 THEN 2 * m ELSE 2 * m + 2]

\* A persisted Job, as far as the worker looks at it.
NewJob(id, maxTries, processAt) ==
    [ID |-> id, Attempts |-> 0, MaxTries |-> maxTries, ProcessAt |-> processAt,
     Payload |-> [big |-> FALSE, d |-> 0], dead |-> FALSE]

\* json.Unmarshal of a list entry into a Job: the numbers of Payload become
\* float64, the other fields decode to what was written.
unmarshalJob(entry) == [entry EXCEPT !.Payload = float64Of(@)]

\* json.Marshal of a Job: a float64 with an integer value below 1e21 is
\* written with all its digits, so the literal is the value the Job holds.
marshalJob(job) ==
    [ID |-> job.ID, Attempts |-> job.Attempts, MaxTries |-> job.MaxTries,
     ProcessAt |-> job.ProcessAt, Payload |-> job.Payload, dead |-> job.dead]

\* RPush of an entry to a list.
RPush(lists, queue, entry) == [lists EXCEPT ![queue] = Append(@, entry)]

\* Worker.enqueueJob
enqueueJob(lists, queue, job) == RPush(lists, queue, marshalJob(job))

\* JobQueue.EnqueueAt: a new job with MaxTries 3, written with the payload
\* the caller passed (an int64, marshalled digit by digit).
EnqueueMaxTries == 3

EnqueueAt(lists, queue, id, payload, processAt) ==
    RPush(lists, queue,
          marshalJob([NewJob(id, EnqueueMaxTries, processAt) EXCEPT !.Payload = payload]))

\* Worker.requeueJob
requeueJob(lists, queue, job) == enqueueJob(lists, queue, job)

\* Worker.retryJob: delay := time.Duration(1<<job.Attempts) * time.Minute,
\* which an int64 holds for every number of attempts up to MaxMaxTries.
retryJob(lists, job, t) ==
    enqueueJob(lists, RetryQueue, [job EXCEPT !.ProcessAt = t + 2 ^ job.Attempts])

\* Worker.moveToDeadQueue: the entry wraps the original job.
moveToDeadQueue(lists, job) == RPush(lists, DeadQueue, [job EXCEPT !.dead = TRUE])

\* mutant: the retry budget is compared with <=
executeJob_oneMore(lists, job, ok, t) ==
    IF ok THEN [lists |-> lists, op |-> "completed"]
    ELSE LET failed == [job EXCEPT !.Attempts = @ + 1]
         IN  IF failed.Attempts <= failed.MaxTries
             THEN [lists |-> retryJob(lists, failed, t), op |-> "retry"]
             ELSE [lists |-> moveToDeadQueue(lists, failed), op |-> "dead"]

\* Worker.executeJob with a registered handler that returns nil (ok) or an
\* error: the lists afterwards and what was done with the job.
executeJob(lists, job, ok, t) ==
    IF ok THEN [lists |-> lists, op |-> "completed"]
    ELSE LET failed == [job EXCEPT !.Attempts = @ + 1]
         IN  IF failed.Attempts < failed.MaxTries
             THEN [lists |-> retryJob(lists, failed, t), op |-> "retry"]
             ELSE [lists |-> moveToDeadQueue(lists, failed), op |-> "dead"]

\* The first of the worker's queues that holds an entry (BLPop).
RECURSIVE FirstNonEmpty(_, _)
FirstNonEmpty(lists, queues) ==
    IF queues = <<>> THEN ""
    ELSE IF lists[Head(queues)] # <<>> THEN Head(queues)
    ELSE FirstNonEmpty(lists, Tail(queues))

NoRuns == [id \in JobIDs |-> 0]

\* Worker.processNextJob: pop the next entry, put it back when it is not due
\* yet, run its handler otherwise.  ok is what the handler returns, exists
\* that a handler is registered for the job's type, redisOk that Redis takes
\* the RPush, cancelled that Stop cancels w.ctx while the job is held (the
\* RPush then runs on a cancelled context and fails).
processNextJobWith(ok, exists, redisOk, cancelled) ==
    /\ FirstNonEmpty(wk.lists, wk.queues) # ""
    /\ LET queue == FirstNonEmpty(wk.lists, wk.queues)
           job == unmarshalJob(Head(wk.lists[queue]))
           rest == [wk.lists EXCEPT ![queue] = Tail(@)]
           pushed_ok == redisOk /\ ~cancelled
       IN  IF now < job.ProcessAt
           THEN wk' = [wk EXCEPT !.lists = IF pushed_ok THEN requeueJob(rest, queue, job)
                                                        ELSE rest,
                                 !.last = [op |-> IF pushed_ok THEN "requeue"
                                                               ELSE "push failed",
                                           job |-> job]]
           ELSE IF ~exists
           THEN wk' = [wk EXCEPT !.lists = rest,
                                 !.last = [op |-> "no handler", job |-> job]]
           ELSE LET r == executeJob(rest, job, ok, now)
                    lost == r.op # "completed" /\ ~pushed_ok
                IN  wk' = [wk EXCEPT !.lists = IF lost THEN rest ELSE r.lists,
                                     !.runs[job.ID] = @ + 1,
                                     !.fails[job.ID] = IF ok THEN @ ELSE @ + 1,
                                     !.last = [op |-> IF lost THEN "push failed" ELSE r.op,
                                               job |-> job]]
    /\ UNCHANGED <<now, breakerVars, queueVars, cacheVars, raceVars, managerVars, threadVars>>

\* processNextJob with a registered handler, a Redis that takes every push
\* and no Stop.
processNextJob(ok) == processNextJobWith(ok, TRUE, TRUE, FALSE)

\* Time passes.
WorkerTick ==
    /\ now < MaxWorkerTime
    /\ now' = now + 1
    /\ UNCHANGED <<wk, breakerVars, queueVars, cacheVars, raceVars, managerVars, threadVars>>

(***************************************************************************)
(* Specifications, one per component.                                      *)
(***************************************************************************)
RaceIdle ==
    /\ getPc = [p \in Readers |-> GetDone("", NoValue, "nil", FALSE)]
    /\ delPc = NoDelete
    /\ deletedKeys = {}
    /\ lastSet = [k \in CacheKeys |-> NoValue]

ThreadsIdle == th = [t \in Threads |-> NoThread]

\* No worker: nothing listens and the lists are empty.
WorkerIdle_wk ==
    [queues |-> <<>>, lists |-> [q \in QueueNames |-> <<>>],
     runs |-> NoRuns, fails |-> NoRuns,
     last |-> [op |-> "none", job |-> NewJob("", 0, 0)]]

WorkerIdle == wk = WorkerIdle_wk

ManagerIdle ==
    /\ ucm = NewUnifiedCacheManager(ModeLegacy, FALSE, FALSE)
    /\ cw = NoWarmer
    /\ iw = NewIntegratedCacheWarmer
    /\ lastCall = ManagerCall("none", "", "nil")
    /\ warmLog = NoWarmLog

BreakerIdle ==
    /\ cb = NewCircuitBreaker(1, 1, 1)
    /\ pc = [p \in Callers |-> "idle"]
    /\ result = [p \in Callers |-> "none"]
    /\ lastOp = [op |-> "none", pre |-> CircuitBreakerClosed]
    /\ consecFail = 0
    /\ everOpen = FALSE
    /\ trials = 0

QueueIdle ==
    /\ items = NewPriorityQueue
    /\ popRet = [job |-> ZeroJob, ok |-> FALSE]
    /\ popped = <<>>
    /\ pushed = <<>>
    /\ inspected = NoInspection

CacheIdle ==
    /\ l1 = [k \in CacheKeys |-> NoEntry]
    /\ redis = [k \in CacheKeys |-> NoRedisEntry]
    /\ redisUp = TRUE
    /\ cacheLog = NoCall

InitBreaker ==
    /\ \E mf \in 1..MaxMaxFailures, to \in 1..MaxTimeout, hm \in 1..MaxHalfOpenMaxCalls :
          cb = NewCircuitBreaker(mf, to, hm)
    /\ now = 0
    /\ pc = [p \in Callers |-> "idle"]
    /\ result = [p \in Callers |-> "none"]
    /\ lastOp = [op |-> "none", pre |-> CircuitBreakerClosed]
    /\ consecFail = 0
    /\ everOpen = FALSE
    /\ trials = 0
    /\ QueueIdle
    /\ CacheIdle
    /\ l2Configured = FALSE
    /\ RaceIdle
    /\ ManagerIdle
    /\ WorkerIdle
    /\ ThreadsIdle

NextBreaker ==
    \/ \E p \in Callers : ExecuteAllow(p)
    \/ \E p \in Callers : ExecuteFail(p)
    \/ \E p \in Callers : ExecuteSucceed(p)
    \/ Tick

SpecBreaker == InitBreaker /\ [][NextBreaker]_vars

InitQueue ==
    /\ QueueIdle
    /\ BreakerIdle
    /\ now = 0
    /\ CacheIdle
    /\ l2Configured = FALSE
    /\ RaceIdle
    /\ ManagerIdle
    /\ WorkerIdle
    /\ ThreadsIdle

NextQueue ==
    \/ \E job \in WarmupJobs : Push(job)
    \/ Pop
    \/ Clear
    \/ \E op \in {"Peek", "Len", "Empty", "GetJobs"} : Inspect(op)

SpecQueue == InitQueue /\ [][NextQueue]_vars

\* NewMultiLevelCache(redisCache), with or without a remote tier.
InitCache ==
    /\ CacheIdle
    /\ l2Configured \in BOOLEAN
    /\ now = 0
    /\ BreakerIdle
    /\ QueueIdle
    /\ RaceIdle
    /\ ManagerIdle
    /\ WorkerIdle
    /\ ThreadsIdle

NextCache ==
    \/ \E k \in CacheKeys, v \in SetValues, ttl \in 1..MaxTTL : Set(k, v, ttl)
    \/ \E k \in CacheKeys, d \in DestKinds : Get(k, d)
    \/ \E k \in CacheKeys : Delete(k)
    \/ RedisFlip
    \/ CacheTick

SpecCache == InitCache /\ [][NextCache]_vars

\* The service over a cache with a remote tier.
InitService ==
    /\ l1 = [k \in ServiceKeys |-> NoEntry]
    /\ redis = [k \in ServiceKeys |-> NoRedisEntry]
    /\ redisUp = TRUE
    /\ cacheLog = NoCall
    /\ l2Configured = TRUE
    /\ now = 0
    /\ BreakerIdle
    /\ QueueIdle
    /\ RaceIdle
    /\ ManagerIdle
    /\ WorkerIdle
    /\ ThreadsIdle

NextService ==
    \/ \E v \in SetValues : GetTasks(v)
    \/ \E v \in SetValues : GetTasksPaginated(v)
    \/ Restart
    \/ RedisFlip
    \/ ServiceTick

SpecService == InitService /\ [][NextService]_vars

\* A cache, with or without a remote tier, whose keys are PatternKeys.
InitTasks ==
    /\ l1 = [k \in TaskServiceKeys |-> NoEntry]
    /\ redis = [k \in TaskServiceKeys |-> NoRedisEntry]
    /\ redisUp = TRUE
    /\ cacheLog = ServiceCall("none", "", FALSE, NoValue)
    /\ l2Configured \in BOOLEAN
    /\ now = 0
    /\ BreakerIdle
    /\ QueueIdle
    /\ RaceIdle
    /\ ManagerIdle
    /\ WorkerIdle
    /\ ThreadsIdle

NextTasks ==
    \/ \E u \in Users, v \in SetValues : GetTasksByUser(u, v)
    \/ \E u \in Users, v \in SetValues : CreateTask(u, v)
    \/ \E u \in Users, k \in BOOLEAN : UpdateTask(u, k)
    \/ \E u \in Users, k \in BOOLEAN : DeleteTask(u, k)

SpecTasks == InitTasks /\ [][NextTasks]_vars

InitPattern ==
    /\ l1 = [k \in PatternKeys |-> NoEntry]
    /\ redis = [k \in PatternKeys |-> NoRedisEntry]
    /\ redisUp = TRUE
    /\ cacheLog = Call("none", <<>>, "none", NoValue, 0, "nil", FALSE, NoValue)
    /\ l2Configured \in BOOLEAN
    /\ now = 0
    /\ BreakerIdle
    /\ QueueIdle
    /\ RaceIdle
    /\ ManagerIdle
    /\ WorkerIdle
    /\ ThreadsIdle

NextPattern ==
    \/ \E k \in PatternKeys, v \in SetValues : Set(k, v, TestTTL)
    \/ \E p \in Patterns : DeletePattern(p)
    \/ RedisFlip

SpecPattern == InitPattern /\ [][NextPattern]_vars

\* Concurrent callers of a cache whose Redis server may already hold keys
\* written before the process started.
InitRace ==
    /\ l1 = [k \in CacheKeys |-> NoEntry]
    /\ redis \in [CacheKeys -> {NoRedisEntry} \cup
                     {[present |-> TRUE, value |-> Marshal(v), expiresAt |-> TestTTL] :
                         v \in SetValues}]
    /\ redisUp = TRUE
    /\ cacheLog = NoCall
    /\ l2Configured = TRUE
    /\ now = 0
    /\ RaceIdle
    /\ BreakerIdle
    /\ QueueIdle
    /\ ManagerIdle
    /\ WorkerIdle
    /\ ThreadsIdle

NextRace ==
    \/ \E p \in Readers, k \in CacheKeys : GetBegin(p, k)
    \/ \E p \in Readers : GetBackfill(p)
    \/ \E k \in CacheKeys : DeleteLocal(k)
    \/ DeleteRemote
    \/ \E k \in CacheKeys, v \in SetValues : ConcurrentSet(k, v, TestTTL)

SpecRace == InitRace /\ [][NextRace]_vars

\* NewUnifiedCacheManager(NewMultiLevelCache(nil), config) for every mode,
\* with and without a client, with a Redis that answers the Ping or not,
\* and every strategy.
InitManager ==
    /\ \E mode \in Modes, client \in BOOLEAN, pingOk \in BOOLEAN, s \in Strategies :
          /\ ucm = NewUnifiedCacheManager(mode, client, pingOk)
          /\ cw = IF ucm.legacyWarmer THEN NewCacheWarmer(s) ELSE NoWarmer
          /\ redisUp = pingOk
    /\ iw = NewIntegratedCacheWarmer
    /\ lastCall = ManagerCall("NewUnifiedCacheManager", "", "nil")
    /\ warmLog = NoWarmLog
    /\ l1 = [k \in JobKeys |-> NoEntry]
    /\ redis = [k \in JobKeys |-> NoRedisEntry]
    /\ cacheLog = NoCall
    /\ l2Configured = FALSE
    /\ now = 0
    /\ BreakerIdle
    /\ QueueIdle
    /\ RaceIdle
    /\ WorkerIdle
    /\ ThreadsIdle

NextManager ==
    \/ Start
    \/ Stop
    \/ WarmupCache
    \/ \E k \in JobKeys : EnqueueWarmupJob(k, MaxPriority)
    \/ \E k \in JobKeys, at \in {"past", "future"} :
          EnqueueScheduledWarmup(k, at, MaxPriority)
    \/ \E k \in JobKeys : EnqueueEvictionJob(k)
    \/ \E k \in JobKeys : EnqueueValidationJob(k)
    \/ \E k \in JobKeys : SchedulePeriodicWarmup(k)
    \/ UpdateConfiguration(TRUE, NoWarmer.strategy)
    \/ \E s \in Strategies : UpdateConfiguration(FALSE, s)
    \/ GetMetrics
    \/ HealthCheck
    \/ warmCache
    \/ \E h \in BOOLEAN : TickerFire(h)
    \/ \E k \in JobKeys : WorkerRun(k)
    \/ \E k \in JobKeys : SchedulerRun(k)

SpecManager == InitManager /\ [][NextManager]_vars

MaxWarmerJobs == 2

\* The queues NewCacheWarmer builds from strategy.Jobs: jobs of distinct
\* keys pushed one after the other.
RECURSIVE PushAll(_, _)
PushAll(q, jobs) ==
    IF jobs = <<>> THEN q
    ELSE PushAll(heap_Push(q, [Job |-> Head(jobs), Priority |-> Head(jobs).Priority,
                               Index |-> 0]),
                 Tail(jobs))

StrategyJobs ==
    {js \in UNION {[1..n -> WarmupJobs] : n \in 0..MaxWarmerJobs} :
        \A i, j \in DOMAIN js : i # j => js[i].Key # js[j].Key}

\* A manager in legacy mode over NewMultiLevelCache(nil), its CacheWarmer
\* built from any strategy and any strategy.Jobs.
InitWarmer ==
    /\ ucm = NewUnifiedCacheManager(ModeLegacy, FALSE, FALSE)
    /\ \E s \in WarmerStrategies : cw = NewCacheWarmer(s)
    /\ iw = NewIntegratedCacheWarmer
    /\ lastCall = ManagerCall("NewUnifiedCacheManager", "", "nil")
    /\ warmLog = NoWarmLog
    /\ \E js \in StrategyJobs : items = PushAll(NewPriorityQueue, js)
    /\ popRet = [job |-> ZeroJob, ok |-> FALSE]
    /\ popped = <<>>
    /\ pushed = <<>>
    /\ inspected = NoInspection
    /\ l1 = [k \in JobKeys |-> NoEntry]
    /\ redis = [k \in JobKeys |-> NoRedisEntry]
    /\ cacheLog = NoCall
    /\ l2Configured = FALSE
    /\ redisUp = FALSE
    /\ now = 0
    /\ BreakerIdle
    /\ RaceIdle
    /\ WorkerIdle
    /\ ThreadsIdle

NextWarmer ==
    \/ Start
    \/ Stop
    \/ WarmupCache
    \/ warmCache
    \/ \E h \in BOOLEAN : TickerFire(h)
    \/ \E k \in JobKeys : WorkerRun(k)
    \/ \E k \in JobKeys : SchedulerRun(k)

\* The goroutines that have been started run, and every job handed to the
\* pool or to the scheduler gets its turn; the ticker and the callers are
\* under no obligation.
SpecWarmer ==
    /\ InitWarmer
    /\ [][NextWarmer]_vars
    /\ WF_vars(warmCache)
    /\ \A k \in JobKeys : WF_vars(WorkerRun(k))
    /\ \A k \in JobKeys : WF_vars(SchedulerRun(k))

\* The jobs some producer has persisted in the default list: distinct ids,
\* any retry budget, due at once.
PersistedJobs ==
    {js \in UNION {[1..n -> {NewJob(id, m, 0) : id \in JobIDs, m \in 1..MaxMaxTries}]
                     : n \in 1..MaxWorkerJobs} :
        \A i, j \in DOMAIN js : i # j => js[i].ID # js[j].ID}

\* NewWorker over a Redis that holds persisted jobs.
InitWorker ==
    /\ \E queues \in WorkerQueues, js \in PersistedJobs :
          wk = [queues |-> queues,
                lists |-> [q \in QueueNames |-> IF q = DefaultQueue THEN js ELSE <<>>],
                runs |-> NoRuns, fails |-> NoRuns,
                last |-> [op |-> "none", job |-> NewJob("", 0, 0)]]
    /\ now = 0
    /\ BreakerIdle
    /\ QueueIdle
    /\ CacheIdle
    /\ l2Configured = FALSE
    /\ RaceIdle
    /\ ManagerIdle
    /\ ThreadsIdle

NextWorker ==
    \/ \E ok \in BOOLEAN : processNextJob(ok)
    \/ WorkerTick

SpecWorker == InitWorker /\ [][NextWorker]_vars

\* The worker with handlers that may be missing, pushes that may fail and a
\* Stop that may come while a job is held.
NextWorkerFaults ==
    \/ \E ok, exists, redisOk, cancelled \in BOOLEAN :
          processNextJobWith(ok, exists, redisOk, cancelled)
    \/ WorkerTick

SpecWorkerFaults == InitWorker /\ [][NextWorkerFaults]_vars

\* NewWorker over a Redis whose default list holds what JobQueue.EnqueueAt
\* wrote: jobs to process now or later, with any payload.
InitDeferred ==
    /\ \E queues \in WorkerQueues, n1, n2 \in PayloadNumbers, t1, t2 \in {0, 1} :
          wk = [WorkerIdle_wk EXCEPT
                   !.queues = queues,
                   !.lists = EnqueueAt(EnqueueAt(@, DefaultQueue, "j1", n1, t1),
                                       DefaultQueue, "j2", n2, t2)]
    /\ now = 0
    /\ BreakerIdle
    /\ QueueIdle
    /\ CacheIdle
    /\ l2Configured = FALSE
    /\ RaceIdle
    /\ ManagerIdle
    /\ ThreadsIdle

SpecDeferred == InitDeferred /\ [][NextWorker]_vars

\* The worker loop calls processNextJob again and again, and time passes.
SpecWorkerLive ==
    /\ InitWorker
    /\ [][NextWorker]_vars
    /\ WF_vars(WorkerTick)
    /\ WF_vars(\E ok \in BOOLEAN : processNextJob(ok))

\* A CacheWarmer of any strategy with an empty queue, and threads that call
\* its methods.
InitLocks ==
    /\ ucm = NewUnifiedCacheManager(ModeLegacy, FALSE, FALSE)
    /\ \E s \in Strategies : cw = NewCacheWarmer(s)
    /\ iw = NewIntegratedCacheWarmer
    /\ lastCall = ManagerCall("NewCacheWarmer", "", "nil")
    /\ warmLog = NoWarmLog
    /\ QueueIdle
    /\ l1 = [k \in JobKeys |-> NoEntry]
    /\ redis = [k \in JobKeys |-> NoRedisEntry]
    /\ cacheLog = NoCall
    /\ l2Configured = FALSE
    /\ redisUp = FALSE
    /\ now = 0
    /\ BreakerIdle
    /\ RaceIdle
    /\ WorkerIdle
    /\ ThreadsIdle

NextLocks ==
    \/ \E t \in Threads, k \in JobKeys : Enter(t, "AddWarmupJob", k)
    \/ \E t \in Threads, m \in Methods \ {"AddWarmupJob"} : Enter(t, m, "")
    \/ \E t \in Threads : Step(t)

SpecLocks == InitLocks /\ [][NextLocks]_vars

(***************************************************************************)
(* Circuit breaker: properties                                             *)
(***************************************************************************)
Elapsed == now - cb.lastFailureTime

\* C1: a breaker that has never opened is Closed, its failureCount is the
\* number of failing calls recorded since the last success (a success while
\* Closed restarts the count at 0) and that number is below maxFailures;
\* once maxFailures failing calls have been recorded with no success in
\* between, the state is Open.
C1_ClosedCountsFailures ==
    /\ (~everOpen => /\ cb.state = CircuitBreakerClosed
                     /\ cb.failureCount = consecFail
                     /\ consecFail < cb.maxFailures)
    /\ (consecFail >= cb.maxFailures => cb.state = CircuitBreakerOpen)
    /\ (lastOp = [op |-> "success", pre |-> CircuitBreakerClosed]
          => cb.failureCount = 0 /\ cb.state = CircuitBreakerClosed)

\* C1 witness: the breaker has just opened on its maxFailures-th failure in a row.
C1_Witness ==
    /\ lastOp = [op |-> "fail", pre |-> CircuitBreakerClosed]
    /\ cb.maxFailures = 2
    /\ consecFail = cb.maxFailures
    /\ cb.state = CircuitBreakerOpen

\* C2: an Execute call that starts while the breaker is Open and less than
\* timeout has elapsed since lastFailureTime does not run fn, returns
\* ErrCircuitBreakerOpen and leaves the breaker's state and counters alone.
C2_OpenRejects ==
    [][\A p \in Callers :
          (ExecuteAllow(p) /\ cb.state = CircuitBreakerOpen /\ Elapsed < cb.timeout)
             => /\ pc'[p] = "idle"
                /\ result'[p] = ErrCircuitBreakerOpen
                /\ cb' = cb]_vars

\* C2 witness: a call has just been rejected by an Open breaker inside its timeout.
C2_Witness ==
    /\ lastOp = [op |-> "reject", pre |-> CircuitBreakerOpen]
    /\ cb.state = CircuitBreakerOpen
    /\ Elapsed < cb.timeout
    /\ \E p \in Callers : result[p] = ErrCircuitBreakerOpen /\ pc[p] = "idle"

\* C3: with maxFailures = 1 one failing call opens the breaker; a call made
\* before timeout has elapsed is rejected with the breaker-open error; a call
\* made once at least timeout has elapsed since the last failure is admitted,
\* runs fn and returns fn's result.
C3_RecoveryAdmission ==
    [][cb.maxFailures = 1 =>
         \A p \in Callers :
            /\ (ExecuteFail(p) /\ cb.state = CircuitBreakerClosed)
                  => cb'.state = CircuitBreakerOpen
            /\ (ExecuteAllow(p) /\ cb.state = CircuitBreakerOpen /\ Elapsed < cb.timeout)
                  => pc'[p] = "idle" /\ result'[p] = ErrCircuitBreakerOpen
            /\ (ExecuteAllow(p) /\ cb.state = CircuitBreakerOpen /\ Elapsed >= cb.timeout)
                  => pc'[p] = "fn"
            /\ (ExecuteFail(p) /\ lastOp = [op |-> "admit", pre |-> CircuitBreakerOpen])
                  => result'[p] = "err"
            /\ (ExecuteSucceed(p) /\ lastOp = [op |-> "admit", pre |-> CircuitBreakerOpen])
                  => result'[p] = "nil"]_vars

\* C3 witness: with maxFailures = 1 a call was admitted by the Open breaker
\* exactly timeout after the failure that opened it.
C3_Witness ==
    /\ cb.maxFailures = 1
    /\ cb.state = CircuitBreakerOpen
    /\ cb.failureCount = 1
    /\ Elapsed = cb.timeout
    /\ lastOp = [op |-> "admit", pre |-> CircuitBreakerOpen]
    /\ \E p \in Callers : pc[p] = "fn"

\* C4 (as claimed): a call admitted by an Open breaker whose timeout has
\* elapsed leaves the breaker HalfOpen from the moment it is admitted.
C4_AdmissionEntersHalfOpen ==
    lastOp = [op |-> "admit", pre |-> CircuitBreakerOpen]
       => cb.state = CircuitBreakerHalfOpen

\* C5 (as claimed): the breaker becomes Closed exactly when successCount
\* reaches halfOpenMaxCalls, so a HalfOpen breaker always has
\* successCount < halfOpenMaxCalls.
C5_ClosedWhenSuccessCountReached ==
    cb.state = CircuitBreakerHalfOpen => cb.successCount < cb.halfOpenMaxCalls

\* C6: a failing call recorded while HalfOpen moves the breaker to Open,
\* sets successCount to 0 and refreshes lastFailureTime, and the breaker
\* then rejects calls (allow is false) until timeout has elapsed.
C6_HalfOpenFailureReopens ==
    [][\A p \in Callers :
          (ExecuteFail(p) /\ cb.state = CircuitBreakerHalfOpen)
             => /\ cb'.state = CircuitBreakerOpen
                /\ cb'.successCount = 0
                /\ cb'.lastFailureTime = now
                /\ ~allow(cb', now')
                /\ \A t \in now..MaxTime + MaxTimeout :
                      allow(cb', t) <=> t - now >= cb.timeout]_vars

\* C6 witness: a failure has just been recorded in HalfOpen and the breaker is Open.
C6_Witness ==
    /\ lastOp = [op |-> "fail", pre |-> CircuitBreakerHalfOpen]
    /\ cb.state = CircuitBreakerOpen
    /\ cb.successCount = 0
    /\ cb.lastFailureTime = now

\* C7 (as claimed): between leaving the rejecting Open state and becoming
\* Closed or Open again at most halfOpenMaxCalls calls are admitted.
C7_TrialBound ==
    trials <= cb.halfOpenMaxCalls

\* Every caller is outside Execute and the breaker is HalfOpen with
\* successCount at the bound: allow is false whatever the time, and only a
\* recorded outcome could change the breaker, so every later call is rejected.
RejectsForever ==
    /\ \A p \in Callers : pc[p] = "idle"
    /\ cb.state = CircuitBreakerHalfOpen
    /\ cb.successCount >= cb.halfOpenMaxCalls

\* C8 (as claimed): there is no reachable state from which every future
\* call is rejected forever.
C8_NoPermanentRejection ==
    ~RejectsForever

\* RejectsForever is closed under every step (used to read C8's counterexample).
RejectsForeverIsStable ==
    [][RejectsForever => RejectsForever']_vars

(***************************************************************************)
(* Priority queue: properties                                              *)
(***************************************************************************)
Count(s, x) == Cardinality({k \in DOMAIN s : s[k] = x})

\* C9: the jobs popped since the last Push come out in non-increasing
\* priority order, and together with the jobs still queued they are exactly
\* the jobs that were queued at that Push (duplicates counted); so popping
\* until empty yields every pushed job, highest priority first.
C9_PopOrder ==
    /\ \A a, b \in DOMAIN popped : a < b => popped[a].Priority >= popped[b].Priority
    /\ \A j \in WarmupJobs : Count(popped, j) + Count(Jobs(items), j) = Count(pushed, j)
    /\ \A k \in DOMAIN items : items[k].Priority = items[k].Job.Priority

\* C9 witness: a full queue holding jobs of three different priorities, two
\* of them equal, has been popped until empty.
C9_Witness ==
    /\ Len(items) = 0
    /\ Len(popped) = MaxQueueLen
    /\ popRet.ok
    /\ popped[1].Priority = MaxPriority
    /\ popped[Len(popped)].Priority = 0
    /\ \E k \in DOMAIN popped : popped[k].Priority = 1
    /\ \E a, b \in DOMAIN popped : a < b /\ popped[a].Priority = popped[b].Priority

\* The entries of the queue: each job with the priority it is ordered by.
Entries(s) == [k \in DOMAIN s |-> <<s[k].Job, s[k].Priority>>]

\* C27: every queued entry is ordered by the priority its job had at Push,
\* and no operation changes the priority of an entry that stays queued: a
\* step adds at most the pushed job with its own priority, and otherwise
\* only removes entries.
C27_PriorityImmutable ==
    /\ [](\A k \in DOMAIN items : items[k].Priority = items[k].Job.Priority)
    /\ [][LET old == Entries(items)
              new == Entries(items')
              seen == {old[k] : k \in DOMAIN old} \cup {new[k] : k \in DOMAIN new}
          IN  IF Len(new) = Len(old) + 1
              THEN \E k \in DOMAIN new :
                      /\ new[k][2] = new[k][1].Priority
                      /\ \A x \in seen :
                            Count(new, x) = Count(old, x) + (IF x = new[k] THEN 1 ELSE 0)
              ELSE \A x \in seen : Count(new, x) <= Count(old, x)]_vars

\* C27 witness: after pushes and a pop the queue holds entries of different
\* priorities, each with the priority of its job.
C27_Witness ==
    /\ Len(items) >= 2
    /\ Len(popped) >= 1
    /\ \E a, b \in DOMAIN items : items[a].Priority # items[b].Priority
    /\ \A k \in DOMAIN items : items[k].Priority = items[k].Job.Priority

MaxQueued == CHOOSE m \in {items[k].Priority : k \in DOMAIN items} :
                \A k \in DOMAIN items : items[k].Priority <= m

\* C29: Peek, Len, Empty and GetJobs leave the queue as it is; GetJobs
\* returns the queued jobs (as many as Len, each as often as it is queued),
\* Peek a job of the highest queued priority, which is the priority of the
\* job the next Pop returns.
C29_InspectionFrame ==
    /\ [][inspected'.op # "none"
            => <<items, popRet, popped, pushed>>' = <<items, popRet, popped, pushed>>]_vars
    /\ [](/\ inspected.op = "Len" => inspected.ret = Len(items)
          /\ inspected.op = "Empty" => (inspected.ret <=> Len(items) = 0)
          /\ inspected.op = "GetJobs" =>
                /\ Len(inspected.ret) = Len(items)
                /\ \A j \in WarmupJobs : Count(inspected.ret, j) = Count(Jobs(items), j)
          /\ inspected.op = "Peek" =>
                /\ inspected.ret.ok <=> Len(items) > 0
                /\ inspected.ret.ok =>
                      /\ inspected.ret.job.Priority = MaxQueued
                      /\ inspected.ret.job.Priority
                            = HeapPopItem(heap_PopSifted(items)).Job.Priority)

\* C29 witness: Peek on a queue of at least three jobs of different
\* priorities, reached through pushes and a pop.
C29_Witness ==
    /\ inspected.op = "Peek"
    /\ inspected.ret.ok
    /\ Len(items) >= 3
    /\ popRet.ok
    /\ \E a, b \in DOMAIN items : items[a].Priority # items[b].Priority

\* C35: Push, Pop and Clear each run under the queue's write lock, so any
\* interleaving of concurrent calls is a sequence of whole calls.  Over every
\* such sequence: the jobs popped and the jobs still queued are together
\* exactly the jobs pushed (none twice, none invented), Len is pushes minus
\* successful Pops, Pop on an empty queue reports empty and changes nothing,
\* and Clear leaves the queue empty.
C35_Conservation ==
    /\ [](/\ \A i \in DOMAIN pushed :
                Count(pushed, pushed[i])
                   = Count(popped, pushed[i]) + Count(Jobs(items), pushed[i])
          /\ QueueLen = Len(pushed) - Len(popped))
    /\ [][LET old == Jobs(items)
              new == Jobs(items')
          IN  /\ Len(new) = Len(old) + 1 =>
                    \E k \in DOMAIN new : \A i \in DOMAIN new :
                        Count(new, new[i])
                           = Count(old, new[i]) + (IF new[i] = new[k] THEN 1 ELSE 0)
              /\ Len(popped') = Len(popped) + 1 =>
                    /\ popRet'.ok
                    /\ popped' = Append(popped, popRet'.job)
                    /\ Len(new) = Len(old) - 1
                    /\ \A i \in DOMAIN old :
                          Count(new, old[i])
                             = Count(old, old[i]) - (IF old[i] = popRet'.job THEN 1 ELSE 0)
              /\ (Len(old) = 0 /\ Pop) => (~popRet'.ok /\ items' = items)
              /\ Clear => Len(new) = 0]_vars

C35_Witness ==
    /\ Len(popped) >= 2
    /\ Len(items) >= 1
    /\ popRet.ok
    /\ \E a, b \in DOMAIN popped : a # b /\ popped[a] = popped[b]

(***************************************************************************)
(* Two-tier cache: properties                                              *)
(***************************************************************************)
\* The last call was a Get that came right after a successful Set of the
\* same key, before the ttl of that Set ran out, into a variable that can
\* hold the written value.
GetRightAfterSet ==
    /\ cacheLog.op = "Get"
    /\ cacheLog.afterSet
    /\ cacheLog.kind \in {cacheLog.written.kind, "any"}

\* C10: a Get issued right after a successful Set of the same key and
\* before its ttl expires returns the written value: no miss, no error, no
\* earlier value; a typed destination holds exactly the value written and an
\* interface{} destination holds its JSON equivalent.
C10_RoundTrip ==
    GetRightAfterSet =>
        /\ cacheLog.err = "nil"
        /\ Marshal(cacheLog.value) = Marshal(cacheLog.written)
        /\ (cacheLog.kind = cacheLog.written.kind => cacheLog.value = cacheLog.written)

\* C10 witness: with a remote tier, time passed after the Set of an int to a
\* key, and the Get that followed returned that int.
C10_Witness ==
    /\ GetRightAfterSet
    /\ l2Configured
    /\ cacheLog.kind = "int"
    /\ cacheLog.value = GoValue("int", 2)
    /\ now = l1[cacheLog.key].expiresAt - 1
    /\ l1[cacheLog.key].expiresAt > MaxTTL

\* C11: Set always writes the local tier; when the remote write fails, Set
\* returns that error, the local tier nevertheless holds the value for the
\* key until its ttl runs out, and the remote tier is as it was before.
C11_SetFailingRemote ==
    [][cacheLog'.op = "Set" /\ now' = now /\ redisUp' = redisUp =>
         LET k == cacheLog'.key
         IN  /\ l1'[k] = [present |-> TRUE, value |-> cacheLog'.value,
                          expiresAt |-> cacheLog'.deadline]
             /\ cacheLog'.deadline > now
             /\ (l2Configured /\ ~redisUp) =>
                   /\ cacheLog'.err = "failed to set cache"
                   /\ MemoryCache_Found(l1', k, now)
                   /\ redis' = redis]_vars

\* C11 witness: a Set failed on the remote tier, which still holds an
\* earlier, different value for the key, while the local tier holds the new one.
C11_Witness ==
    /\ cacheLog.op = "Set"
    /\ cacheLog.err = "failed to set cache"
    /\ l2Configured /\ ~redisUp
    /\ l1[cacheLog.key].value = cacheLog.value
    /\ redis[cacheLog.key].present
    /\ redis[cacheLog.key].value # Marshal(cacheLog.value)

\* C12: Get returns ErrCacheMiss exactly when the key is absent from the
\* local tier and either no remote tier is configured or the reachable
\* remote tier does not hold it; when the remote tier is consulted and
\* fails, Get returns an error other than ErrCacheMiss and the local tier
\* is left as it was.
C12_MissVersusError ==
    [][cacheLog'.op = "Get" /\ now' = now /\ redisUp' = redisUp =>
         LET k == cacheLog'.key
             localMiss == ~MemoryCache_Found(l1, k, now)
         IN  /\ cacheLog'.err = ErrCacheMiss
                   <=> /\ localMiss
                       /\ \/ ~l2Configured
                          \/ redisUp /\ ~RedisLive(redis, k, now)
             /\ (localMiss /\ l2Configured /\ ~redisUp) =>
                   /\ cacheLog'.err \notin {"nil", ErrCacheMiss}
                   /\ l1' = l1]_vars

\* C12 witness: a Get missed the local tier while the unreachable remote
\* tier held the key; it returned the remote error and backfilled nothing.
C12_Witness ==
    /\ cacheLog.op = "Get"
    /\ cacheLog.err = "failed to get from cache"
    /\ l2Configured /\ ~redisUp
    /\ ~MemoryCache_Found(l1, cacheLog.key, now)
    /\ RedisLive(redis, cacheLog.key, now)

(***************************************************************************)
(* Cached task service: properties                                         *)
(***************************************************************************)
\* The step backfilled the local entry of key k: the entry now holds the
\* pointer a Get was called with.
Backfilled(k) == l1'[k] # l1[k] /\ l1'[k].present /\ l1'[k].value.isPtr

\* C13 (as claimed): a backfilled local entry gets a TTL shorter than the
\* TTL the key's entry was originally set with, for every TTL a caller uses.
C13_BackfillShorterThanOriginal ==
    [][\A k \in ServiceKeys :
          Backfilled(k) => l1'[k].expiresAt - now < OriginalTTL(k)]_vars

\* C14 (as claimed): a readable local entry is never readable later than
\* the remote entry's expiry plus the backfill TTL.
C14_LocalWithinGrace ==
    \A k \in ServiceKeys :
        (MemoryCache_Found(l1, k, now) /\ redis[k].present)
           => now < redis[k].expiresAt + BackfillTTL

\* C14 (amended): every local value was put there by a Set or by a
\* backfill.  A backfilled entry holds the remote entry's value and is never
\* readable later than the remote entry's expiry plus the backfill TTL.  An
\* entry written by Set is readable for the TTL passed to Set, and that is
\* the remote entry's expiry when the remote write succeeded.
C14_BoundedStaleness ==
    [][/\ \A k \in ServiceKeys :
            (l1'[k].present /\ l1'[k].value.isPtr) =>
               /\ redis'[k].present
               /\ redis'[k].value = Marshal(l1'[k].value)
               /\ l1'[k].expiresAt <= redis'[k].expiresAt + BackfillTTL
       /\ \A k \in ServiceKeys :
            (l1'[k] # l1[k] /\ l1'[k].present /\ ~l1'[k].value.isPtr) =>
               /\ l1'[k].value \in SetValues
               /\ l1'[k].expiresAt = now + OriginalTTL(k)
               /\ redisUp => redis'[k] = [present |-> TRUE,
                                           value |-> Marshal(l1'[k].value),
                                           expiresAt |-> l1'[k].expiresAt]]_vars

\* C14 witness: a backfilled local entry is still readable after the remote
\* entry it was read from has expired.
C14_Witness ==
    \E k \in ServiceKeys :
        /\ MemoryCache_Found(l1, k, now)
        /\ l1[k].value.isPtr
        /\ redis[k].present
        /\ ~RedisLive(redis, k, now)

(***************************************************************************)
(* Pattern invalidation: properties                                        *)
(***************************************************************************)
\* The pattern is a prefix followed by the wildcard.
IsPrefixGlob(p) ==
    /\ p # <<>>
    /\ p[Len(p)] = "*"
    /\ \A i \in 1..Len(p) - 1 : p[i] # "*"

\* The key starts with the prefix of the prefix glob.
HasPrefix(key, p) ==
    /\ Len(key) >= Len(p) - 1
    /\ SubSeq(key, 1, Len(p) - 1) = SubSeq(p, 1, Len(p) - 1)

\* C15: DeletePattern with a prefix glob leaves every key that does not
\* start with the prefix as it was in both tiers, removes every key that
\* starts with it from the local tier and, when it returns no error, from
\* the remote tier; after "user_tasks:*" without error the keys left are
\* the ones other than user_tasks:1 and user_tasks:2 that were there before.
C15_DeletePatternFrame ==
    [][(cacheLog'.op = "DeletePattern" /\ redisUp' = redisUp
          /\ IsPrefixGlob(cacheLog'.key)) =>
         LET p == cacheLog'.key
         IN  /\ \A k \in PatternKeys :
                   IF HasPrefix(k, p)
                   THEN /\ ~l1'[k].present
                        /\ cacheLog'.err = "nil" => ~redis'[k].present
                   ELSE l1'[k] = l1[k] /\ redis'[k] = redis[k]
             /\ (p = <<"user_tasks", ":", "*">> /\ cacheLog'.err = "nil") =>
                   /\ HeldKeys(l1') = HeldKeys(l1) \cap {<<"other", ":", "1">>}
                   /\ HeldKeys(redis') = HeldKeys(redis) \cap {<<"other", ":", "1">>}]_vars

\* C15 witness: with user_tasks:1, user_tasks:2 and other:1 set in both
\* tiers, DeletePattern("user_tasks:*") returned no error and exactly
\* other:1 is left in both.
C15_Witness ==
    /\ cacheLog.op = "DeletePattern"
    /\ cacheLog.key = <<"user_tasks", ":", "*">>
    /\ cacheLog.err = "nil"
    /\ l2Configured
    /\ cacheLog.local = PatternKeys
    /\ cacheLog.remote = PatternKeys
    /\ HeldKeys(l1) = {<<"other", ":", "1">>}
    /\ HeldKeys(redis) = {<<"other", ":", "1">>}

(***************************************************************************)
(* Concurrent callers: properties                                          *)
(***************************************************************************)
\* C16 (as claimed): a Get that starts after a Delete of its key returned
\* without error, with no Set of the key since the Delete began, returns
\* ErrCacheMiss, whatever Gets were in flight during the Delete.
C16_DeleteDurable ==
    \A p \in Readers :
        (getPc[p].stage = "idle" /\ getPc[p].afterDelete)
           => getPc[p].err = ErrCacheMiss

\* C36: a Get that starts after Set(key, v1, ttl) has returned, with no later
\* Set or Delete of key and before expiry, returns v1, whatever backfill of
\* an older Get of key happens in between.
C36_SetNotOverwritten ==
    [][\A p \in Readers, k \in CacheKeys :
          (GetBegin(p, k) /\ lastSet[k] # NoValue)
             => (getPc'[p].err = "nil" /\ getPc'[p].value = lastSet[k])]_vars

(***************************************************************************)
(* Unified cache manager: properties                                       *)
(***************************************************************************)
ForcedIntegrated == {ModeIntegrated, ModeLocalOnly, ModeDistributed}

\* C17: the manager is in legacy mode when the mode is forced Legacy, when
\* it is Auto and there is no client or the Ping fails, and when it is
\* Integrated, LocalOnly or Distributed without a client; it is in
\* integrated mode exactly when there is a client and the mode was forced
\* or the Ping of Auto succeeded.
C17_ModeSelection ==
    /\ ucm.mode = ModeLegacy => ~ucm.useIntegrated
    /\ (ucm.mode = ModeAuto /\ (~ucm.client \/ ~ucm.pingOk)) => ~ucm.useIntegrated
    /\ (ucm.mode \in ForcedIntegrated /\ ~ucm.client) => ~ucm.useIntegrated
    /\ ucm.useIntegrated <=>
          /\ ucm.client
          /\ \/ ucm.mode \in ForcedIntegrated
             \/ ucm.mode = ModeAuto /\ ucm.pingOk

\* C17 witness: a manager built in Auto mode with a client whose Ping
\* succeeded is integrated, and has been started.
C17_Witness ==
    /\ ucm.mode = ModeAuto
    /\ ucm.client /\ ucm.pingOk
    /\ ucm.useIntegrated
    /\ lastCall.op = "Start"
    /\ iw.running

\* C18: no call changes useIntegrated, and exactly one of legacyWarmer and
\* integratedWarmer is non-nil before and after every step.
C18_ModeFixed ==
    [][/\ ucm'.useIntegrated = ucm.useIntegrated
       /\ ucm.legacyWarmer # ucm.integratedWarmer
       /\ ucm'.legacyWarmer # ucm'.integratedWarmer
       /\ ucm'.integratedWarmer = ucm'.useIntegrated]_vars

\* C18 witness: a legacy manager that was started, stopped and started
\* again by a successful UpdateConfiguration, with a job enqueued before.
C18_Witness ==
    /\ lastCall = ManagerCall("UpdateConfiguration", "", "nil")
    /\ ~ucm.useIntegrated
    /\ ucm.legacyWarmer /\ ~ucm.integratedWarmer
    /\ cw.running
    /\ cw.stopChClosed
    /\ Len(items) = 1

\* C19: in legacy mode EnqueueEvictionJob, EnqueueValidationJob and
\* SchedulePeriodicWarmup return an error and change nothing: not the
\* priority queue, not the cache, not the warmer and its running state.
C19_UnsupportedInLegacy ==
    [][\A k \in JobKeys :
          (/\ ~ucm.useIntegrated
           /\ \/ EnqueueEvictionJob(k)
              \/ EnqueueValidationJob(k)
              \/ SchedulePeriodicWarmup(k))
             => /\ lastCall'.err # "nil"
                /\ items' = items
                /\ l1' = l1 /\ redis' = redis
                /\ cw' = cw /\ iw' = iw /\ ucm' = ucm]_vars

\* C19 witness: a running legacy manager with a queued job has just
\* refused an eviction job.
C19_Witness ==
    /\ lastCall.op = "EnqueueEvictionJob"
    /\ lastCall.err = "eviction jobs not supported in legacy mode"
    /\ ~ucm.useIntegrated
    /\ cw.running
    /\ Len(items) = 1

\* C20 (as claimed): after EnqueueScheduledWarmup on a started legacy
\* manager the call has returned nil and the key is in the cache or on its
\* way there (held by the scheduler, by the worker pool or by a warmCache
\* goroutine already started), with no later tick or manual warm needed.
C20_ScheduledRunsImmediately ==
    (lastCall.op = "EnqueueScheduledWarmup" /\ ~ucm.useIntegrated /\ cw.running)
       => /\ lastCall.err = "nil"
          /\ \/ l1[lastCall.key].present
             \/ lastCall.key \in cw.schedJobs \cup cw.poolPending
             \/ cw.passPending

\* C21: UpdateConfiguration with a non-nil strategy on a running legacy
\* engine returns nil with the engine running again and using the new
\* strategy; UpdateConfiguration(nil) returns an error and changes neither
\* the strategy nor the running state.
C21_KeepsRunning ==
    [][/\ \A s \in Strategies :
             (UpdateConfiguration(FALSE, s) /\ ~ucm.useIntegrated /\ cw.running)
                => /\ lastCall'.err = "nil"
                   /\ cw'.running
                   /\ cw'.strategy = s
       /\ UpdateConfiguration(TRUE, NoWarmer.strategy)
                => /\ lastCall'.err = "strategy cannot be nil"
                   /\ cw' = cw /\ iw' = iw]_vars

\* C22: UpdateConfiguration with a non-nil strategy on a legacy engine that
\* is not running swaps the strategy and leaves the engine stopped: the
\* running flag stays false and no warm pass, ticker, worker pool or
\* scheduler is launched.
C22_RestartsOnlyRunning ==
    [][\A s \in Strategies :
          (UpdateConfiguration(FALSE, s) /\ ~ucm.useIntegrated /\ ~cw.running)
             => /\ cw'.strategy = s
                /\ ~cw'.running
                /\ cw'.passPending = cw.passPending
                /\ cw'.tickerAlive = cw.tickerAlive
                /\ cw'.poolRunning = cw.poolRunning
                /\ cw'.schedRunning = cw.schedRunning]_vars

(***************************************************************************)
(* Legacy cache warmer: properties                                         *)
(***************************************************************************)
\* C23: a warm-up job that is queued when the warmer is started is in the
\* cache after the first processing cycle, before any further call is made
\* (a later call ends the obligation).
C23_EnqueueThenStartWarms ==
    \A k \in JobKeys :
        (lastCall.op = "Start" /\ cw.running /\ k \in KeysOf(items))
           ~> (l1[k].present \/ lastCall.op # "Start")

\* C24: no warm-up job is applied to the cache (cache.Set for its key) more
\* than once, whatever passes the start-up, the ticks and the manual
\* warm-ups start.
C24_ConsumedOnce == warmLog.reapplied = {}

\* C25: a batch pass of warmCache over k queued jobs of distinct keys (no
\* worker pool) makes exactly k cache.Set calls, one per job, for every
\* BatchSize and ConcurrentJobs.
C25_NoDropsNoDuplicates ==
    [][(warmCache /\ Len(items) > 0
          /\ ~(cw.strategy.UseWorkerPool /\ cw.workerPool))
         => /\ warmLog'.pass = [jobs |-> Len(items), sets |-> Len(items)]
            /\ \A k \in KeysOf(items) : l1'[k].present]_vars

\* C30: a tick whose health predicate fails starts no warm pass and writes
\* nothing to the cache, and leaves nothing behind that a later step could
\* make up for; a warm pass is started only by Start, by a manual warm-up
\* or by a tick whose predicate passes.
C30_UnhealthyTickSkipped ==
    [][/\ (\E h \in BOOLEAN : TickerFire(h) /\ ~shouldWarmup(h))
            => (cw' = cw /\ l1' = l1 /\ items' = items)
       /\ (cw'.passPending /\ ~cw.passPending)
            => \/ Start
               \/ WarmupCache
               \/ \E h \in BOOLEAN : TickerFire(h) /\ shouldWarmup(h)]_vars

\* A tick has been skipped while a job was waiting in the queue, no pass is
\* pending and the job's key is still not in the cache.
C30_Witness ==
    /\ warmLog.skipped
    /\ cw.tickerAlive
    /\ ~cw.passPending
    /\ \E k \in KeysOf(items) : ~l1[k].present

(***************************************************************************)
(* Background worker: properties                                           *)
(***************************************************************************)
\* The entries of job id in the list of the given name.
EntriesOf(lists, queue, id) == {i \in DOMAIN lists[queue] : lists[queue][i].ID = id}

\* Job id is held by exactly one entry, and Attempts is the number of
\* times its handler has failed, within the budget; the entry is in the
\* dead-letter list exactly when the budget is used up.
WithinBudget(id) ==
    /\ wk.runs[id] <= MaxMaxTries
    /\ Cardinality(UNION {{<<q, i>> : i \in EntriesOf(wk.lists, q, id)} : q \in QueueNames}) = 1
    /\ \A q \in QueueNames : \A i \in EntriesOf(wk.lists, q, id) :
          LET e == wk.lists[q][i]
          IN  /\ e.Attempts = wk.fails[id]
              /\ wk.runs[id] <= e.MaxTries
              /\ (q = DeadQueue) <=> (e.Attempts = e.MaxTries)
              /\ (q = DeadQueue) <=> e.dead

\* What a failing run does with the job: below the budget it goes to the
\* retry list with one more attempt and ProcessAt 2^Attempts minutes ahead;
\* with the budget used up it goes to the dead-letter list.
FailedRunRequeues ==
    LET job == wk'.last.job
        moved == [job EXCEPT !.Attempts = @ + 1]
    IN  /\ wk'.last.op = "retry" =>
              /\ moved.Attempts < job.MaxTries
              /\ wk'.lists[RetryQueue] # <<>>
              /\ LET e == wk'.lists[RetryQueue][Len(wk'.lists[RetryQueue])]
                 IN  /\ e.ID = job.ID
                     /\ e.Attempts = job.Attempts + 1
                     /\ e.ProcessAt = now + 2 ^ e.Attempts
                     /\ e.ProcessAt > now
                     /\ job.Attempts > 0 => e.ProcessAt - now = 2 * 2 ^ job.Attempts
        /\ wk'.last.op = "dead" =>
              /\ moved.Attempts = job.MaxTries
              /\ wk'.lists[DeadQueue] = Append(wk.lists[DeadQueue], [moved EXCEPT !.dead = TRUE])

\* C26: a job whose handler fails every time is run at most MaxTries times;
\* each failure below the budget requeues it with one more attempt and a
\* delay of 2^attempts minutes, the last one moves it to the dead-letter
\* list once, and an entry of the dead-letter list is never taken out.
C26_RetryBudget ==
    /\ [](\A id \in JobIDs : wk.runs[id] = wk.fails[id] /\ wk.runs[id] > 0
                                => WithinBudget(id))
    /\ [][/\ wk' # wk => FailedRunRequeues
          /\ SubSeq(wk'.lists[DeadQueue], 1, Len(wk.lists[DeadQueue])) = wk.lists[DeadQueue]]_vars

\* A job with a budget of more than one try has used it up: its handler
\* has failed MaxTries times and it is in the dead-letter list.
C26_Witness ==
    \E id \in JobIDs : \E i \in EntriesOf(wk.lists, DeadQueue, id) :
        /\ wk.lists[DeadQueue][i].MaxTries > 1
        /\ wk.fails[id] = wk.lists[DeadQueue][i].MaxTries
        /\ wk.runs[id] = wk.fails[id]

(***************************************************************************)
(* Locks of the legacy warmer: properties                                  *)
(***************************************************************************)
\* C28: no thread holds two locks at once, and no thread is inside the
\* priority queue, the scheduler or the worker pool while it holds the
\* warmer's lock.
C28_NoNestedLocking ==
    \A t \in Threads :
        /\ Cardinality({h[1] : h \in th[t].held}) <= 1
        /\ (\E h \in th[t].held : h[1] = CwMu) => th[t].in = ""

\* C31: when CacheWarmer.Stop has returned, no warm pass is still in flight and
\* the ticker loop is gone; no warm pass writes to the cache after that return.
C31_StopDrains ==
    /\ []((lastCall.op = "Stop" /\ lastCall.err = "nil" /\ ~cw.running)
             => (~cw.passPending /\ ~cw.tickerAlive))
    /\ [][(lastCall.op = "Stop" /\ lastCall.err = "nil" /\ ~cw.running /\ warmCache)
             => l1' = l1]_vars

\* C32: no Start or Stop call on the legacy warmer panics, whatever came
\* before it; Start on a running warmer and Stop on a stopped one change nothing.
C32_StartStopAnyOrder ==
    /\ [](lastCall.err # "panic")
    /\ [][/\ (Start /\ cw.running) => cw' = cw
          /\ (Stop /\ ~cw.running) => cw' = cw]_vars

\* C33: in ticker mode (no scheduler, WarmupInterval > 0) a running warmer has
\* a live ticker loop, after a restart as after the first Start, so that a
\* tick whose health predicate passes can start a pass.
C33_TickerSurvivesRestart ==
    (/\ cw.running
     /\ cw.strategy.WarmupInterval > 0
     /\ ~(cw.strategy.UseScheduler /\ cw.scheduler)
     /\ ~Panicked)
        => /\ cw.tickerAlive
           /\ ~cw.passPending => \E h \in BOOLEAN : ENABLED TickerFire(h)

\* C34: every warm pass that was started ends: no pass is stuck in its batch
\* loop, whatever BatchSize and ConcurrentJobs the strategy holds.
C34_PassTerminates ==
    /\ [](~warmLog.spinning)
    /\ (cw.passPending /\ ~Panicked) ~> (~cw.passPending \/ Panicked)

\* Job id waits in the retry list after its n-th failed attempt, due within
\* the time the model covers.
AwaitsRetry(id, n) ==
    \E i \in EntriesOf(wk.lists, RetryQueue, id) :
        /\ wk.lists[RetryQueue][i].Attempts = n
        /\ wk.lists[RetryQueue][i].ProcessAt <= MaxWorkerTime

\* Job id is in no list with n attempts: its handler has run once more.
RanAgain(id, n) ==
    \A q \in QueueNames : \A i \in EntriesOf(wk.lists, q, id) :
        wk.lists[q][i].Attempts # n

\* C38: a job that failed below its budget is run again, whatever queues the
\* worker was configured to poll.
C38_FailedJobRetried ==
    \A id \in JobIDs : \A n \in 1..MaxMaxTries :
        AwaitsRetry(id, n) ~> RanAgain(id, n)

\* The number of entries in all lists.
Persisted(lists) == Len(lists[DefaultQueue]) + Len(lists[RetryQueue]) + Len(lists[DeadQueue])

\* C37: every job the worker takes from a list either completes, and is in
\* no list afterwards, or is pushed to one list (the same one, the retry list
\* or the dead-letter list): no job leaves the lists without having completed.
C37_NoJobLost ==
    [][wk' # wk =>
         IF wk'.last.op = "completed"
         THEN Persisted(wk'.lists) = Persisted(wk.lists) - 1
         ELSE /\ Persisted(wk'.lists) = Persisted(wk.lists)
              /\ wk'.last.op \in {"requeue", "retry", "dead"}]_vars

\* C39: the handler runs only for a job that is due; a job popped before its
\* ProcessAt goes back to the tail of the list it came from, and the entry
\* pushed is the entry that was popped (id, payload, attempts, processAt).
C39_DeferredNotRunEarly ==
    [][wk' # wk =>
         LET queue == FirstNonEmpty(wk.lists, wk.queues)
             entry == Head(wk.lists[queue])
         IN  IF now < entry.ProcessAt
             THEN /\ wk'.runs = wk.runs
                  /\ wk'.lists = [wk.lists EXCEPT ![queue] = Append(Tail(@), entry)]
             ELSE wk'.runs[entry.ID] = wk.runs[entry.ID] + 1]_vars

(***************************************************************************)
(* Per-user task list: properties                                          *)
(***************************************************************************)
\* C40: a mutation of a task of user u whose owner is known removes the key
\* of u's task list from both tiers, and a GetTasksByUser(u) that follows the
\* mutation directly is not served from the cache.
C40_UserListInvalidated ==
    [][/\ \A u \in Users :
            (\/ \E task \in SetValues : CreateTask(u, task)
             \/ UpdateTask(u, TRUE)
             \/ DeleteTask(u, TRUE))
              => /\ ~l1'[UserTasksKey(u)].present
                 /\ ~redis'[UserTasksKey(u)].present
       /\ (/\ cacheLog.op \in {"CreateTask", "UpdateTask", "DeleteTask"}
           /\ cacheLog'.op = "GetTasksByUser"
           /\ cacheLog'.key = cacheLog.key)
              => ~cacheLog'.hit]_vars
====
